---------------------------- MODULE Spec2Model ----------------------------
(***************************************************************************)
(* A model of the edwards25519 package: the Scalar type (integers modulo   *)
(* the group order l) of src/unnamed/part_000 and the point arithmetic of  *)
(* src/internal/edwards25519/edwards25519.go.                              *)
(*                                                                         *)
(* TLC's integers are 32 bits wide, so every wide value of the program is  *)
(* held as a sequence of small digits:                                     *)
(*   - a byte string ([]byte, [32]byte, [64]byte) is a sequence of bytes,  *)
(*     Go index i being TLA+ index i+1;                                    *)
(*   - a uint64 or int64 is its 8 bytes, least significant first (an int64 *)
(*     in two's complement), and its arithmetic is arithmetic modulo 2^64; *)
(*   - an unbounded natural number (used only to state what a result must  *)
(*     be) is a sequence of base-256 digits, least significant first;      *)
(*   - a field element (modulo 2^255 - 19) is its canonical residue as 17  *)
(*     limbs of 15 bits, least significant first.                          *)
(***************************************************************************)
EXTENDS Integers, Sequences, FiniteSets, TLC

VARIABLES
  pc,       \* position of the running scenario
  scalars,  \* the Scalar objects: object id -> Scalar
  pre,      \* the Scalar objects as they were when the last call was made
  call,     \* the last call: method, receiver, operands
  buf,      \* the caller's input buffer handed to a decoder
  ret,      \* what the last call returned: an object id, or "nil"
  err,      \* the error the last call returned, or "nil"
  digits,   \* the digit array the last call returned, or <<>>
  panicked, \* the message the last call panicked with, or "nil"
  points,   \* the point objects: object id -> ExtendedGroupElement
  prePoints,\* the point objects as they were when the last call was made
  todo,     \* the calls the caller has still to make, the next one first
  ladder,   \* the locals of the running ScalarMult: v (= r0), k, i and r1
  multiple  \* history: the sum that r0 of the running ScalarMult stands for

vars == <<pc, scalars, pre, call, buf, ret, err, digits, panicked,
          points, prePoints, todo, ladder, multiple>>

---------------------------------------------------------------------------
(* Digit sequences.                                                        *)

\* A function on 1..n held as a tuple of its values.
Tup(f) == SubSeq(f, 1, Len(f))

Zeros(n) == Tup([i \in 1..n |-> 0])

\* A loop over lo..hi is run as its four quarters in turn, each quarter taking
\* the state the one before it left (a value is computed where it is first
\* used, and the quarters are named in their order).  Quarter is the length of
\* a quarter, and Upto caps the end of one at hi; a quarter may be empty.
Quarter(lo, hi) == (hi - lo + 4) \div 4
Upto(a, hi) == IF a < hi THEN a ELSE hi

\* digit i of a, zero beyond its length
Digit(a, i) == IF i <= Len(a) THEN a[i] ELSE 0

\* Carry propagation, base 256, over the columns lo..hi with the carry c coming
\* in: a column is any integer (a column sum, maybe negative); the result is
\* <<digits, carry out of the last column>>.
RECURSIVE CarryFrom(_, _, _, _)
CarryFrom(cols, lo, hi, c) ==
  IF lo > hi THEN << <<>>, c >>
  ELSE IF lo = hi
  THEN LET t == cols[lo] + c IN << <<t % 256>>, t \div 256 >>
  ELSE LET n == Quarter(lo, hi)
           q1 == CarryFrom(cols, lo, lo + n - 1, c)
           q2 == CarryFrom(cols, lo + n, Upto(lo + 2 * n - 1, hi), q1[2])
           q3 == CarryFrom(cols, lo + 2 * n, Upto(lo + 3 * n - 1, hi), q2[2])
           q4 == CarryFrom(cols, lo + 3 * n, hi, q3[2])
       IN  <<q1[1] \o q2[1] \o q3[1] \o q4[1], q4[2]>>

Carry256(cols) ==
  LET tup == Tup(cols)
  IN  IF Len(tup) = 0 THEN << <<>>, 0 >> ELSE CarryFrom(tup, 1, Len(tup), 0)

\* Natural numbers as digit sequences, n digits of the result: sum, difference
\* (with the borrow: the carry out is -1 when a < b), order, product, multiple.
NatAdd(a, b, n) == Carry256([i \in 1..n |-> Digit(a, i) + Digit(b, i)])[1]
NatBorrow(a, b, n) == Carry256([i \in 1..n |-> Digit(a, i) - Digit(b, i)])
NatLess(a, b) ==
  NatBorrow(a, b, IF Len(a) > Len(b) THEN Len(a) ELSE Len(b))[2] < 0

\* the sum of a[i] * b[k - i + 1] for i in lo..hi
RECURSIVE ColumnSum(_, _, _, _, _)
ColumnSum(a, b, k, lo, hi) ==
  IF lo > hi THEN 0
  ELSE IF lo = hi THEN a[lo] * b[k - lo + 1]
  ELSE LET n == Quarter(lo, hi)
       IN  ColumnSum(a, b, k, lo, lo + n - 1)
             + ColumnSum(a, b, k, lo + n, Upto(lo + 2 * n - 1, hi))
             + ColumnSum(a, b, k, lo + 2 * n, Upto(lo + 3 * n - 1, hi))
             + ColumnSum(a, b, k, lo + 3 * n, hi)

\* column k of the product of a and b: every a[i] * b[j] with i + j = k + 1
Column(a, b, k) ==
  ColumnSum(a, b, k, IF k > Len(b) THEN k - Len(b) + 1 ELSE 1,
                     IF k < Len(a) THEN k ELSE Len(a))

\* the product of a and b, Len(a) + Len(b) digits
NatMul(a, b) ==
  Carry256([k \in 1..(Len(a) + Len(b)) |-> Column(a, b, k)])[1]

\* a * k for a small k
NatScale(a, k, n) == Carry256([i \in 1..n |-> Digit(a, i) * k])[1]

\* l = 2^252 + 27742317777372353535851937790883648493, as 32 bytes
LBytes ==
  << 237, 211, 245, 92, 26, 99, 18, 88, 214, 156, 247, 162, 222, 249, 222, 20,
     0, 0, 0, 0, 0, 0, 0, 0, 0, 0, 0, 0, 0, 0, 0, 16 >>

\* t mod l for a 33-digit t < 256 * l, by one step of long division: the trial
\* quotient q = t \div 2^252 is at least t \div l and at most one multiple of l
\* too many is taken away, since q * (l - 2^252) < l.
ReduceStep(t) ==
  LET q == t[33] * 16 + (t[32] \div 16)
      d == NatBorrow(t, NatScale(LBytes, q, 33), 33)
  IN  SubSeq(IF d[2] < 0 THEN NatAdd(d[1], LBytes, 33) ELSE d[1], 1, 32)

\* The residue modulo l of the natural number x, by long division: Horner's
\* rule over the digits hi, hi - 1, .. lo of x, from the residue r of the digits
\* above them.
RECURSIVE ModLFrom(_, _, _, _)
ModLFrom(x, hi, lo, r) ==
  IF hi < lo THEN r
  ELSE IF hi = lo THEN ReduceStep(<<x[hi]>> \o r)
  ELSE LET n == Quarter(lo, hi)
           q1 == ModLFrom(x, hi, hi - n + 1, r)
           q2 == ModLFrom(x, hi - n, hi - Upto(2 * n - 1, hi - lo), q1)
           q3 == ModLFrom(x, hi - 2 * n, hi - Upto(3 * n - 1, hi - lo), q2)
       IN  <<q1, q2, q3, ModLFrom(x, hi - 3 * n, lo, q3)>>[4]

ModL(x) == IF Len(x) = 0 THEN Zeros(32) ELSE ModLFrom(x, Len(x), 1, Zeros(32))

---------------------------------------------------------------------------
(* The scalar-field primitives the Scalar type is built on (the fiat_sc255  *)
(* functions: a [4]uint64 in the Montgomery domain, R = 2^256).             *)

\* a 64-bit word from its four 16-bit quarters, most significant first, as the
\* source writes it in hexadecimal: U64(\Hd6ec, \H3174, \H8d98, \H951d) is
\* 0xd6ec31748d98951d.  The word is held as its 8 bytes, least significant first.
U64(q3, q2, q1, q0) ==
  << q0 % 256, q0 \div 256, q1 % 256, q1 \div 256,
     q2 % 256, q2 \div 256, q3 % 256, q3 \div 256 >>

\* the 32 bytes of four words, and the four words of 32 bytes
Flat(w) == w[1] \o w[2] \o w[3] \o w[4]
Words(b) == << SubSeq(b, 1, 8), SubSeq(b, 9, 16), SubSeq(b, 17, 24), SubSeq(b, 25, 32) >>

\* R^2 mod l, R = 2^256
MontR2 ==
  << 1, 15, 156, 68, 227, 17, 6, 164, 71, 147, 133, 104, 167, 27, 14, 208,
     101, 190, 245, 23, 210, 115, 236, 206, 61, 154, 48, 124, 27, 65, 153, 3 >>

\* One round of the Montgomery reduction of the column sums st[1] (64 columns,
\* base 256) with the carry st[2]: m = -t/l mod 256 makes column i vanish, and
\* its carry moves on.
RedcRound(st, i) ==
  LET cols == st[1]
      t == cols[i] + st[2]
      m == ((t % 256) * 27) % 256
  IN  << Tup([k \in 1..64 |->
                IF k >= i /\ k <= i + 31 THEN cols[k] + m * LBytes[k - i + 1]
                ELSE cols[k]]),
         (t + m * LBytes[1]) \div 256 >>

\* the rounds lo..hi
RECURSIVE Redc(_, _, _)
Redc(st, lo, hi) ==
  IF lo > hi THEN st
  ELSE IF lo = hi THEN RedcRound(st, lo)
  ELSE LET n == Quarter(lo, hi)
           q1 == Redc(st, lo, lo + n - 1)
           q2 == Redc(q1, lo + n, Upto(lo + 2 * n - 1, hi))
           q3 == Redc(q2, lo + 2 * n, Upto(lo + 3 * n - 1, hi))
       IN  <<q1, q2, q3, Redc(q3, lo + 3 * n, hi)>>[4]

\* a * b / R mod l, for a, b < l given as 32 bytes: the stages, in their order,
\* and the result
MontMul(a, b) ==
  LET cols == Tup([k \in 1..64 |-> Column(a, b, k)])
      r == Redc(<<cols, 0>>, 1, 32)
      hi == Carry256([k \in 1..33 |->
              IF k = 1 THEN r[1][33] + r[2] ELSE IF k <= 32 THEN r[1][32 + k] ELSE 0])[1]
      d == NatBorrow(hi, LBytes, 33)
  IN  <<a, b, cols, r, hi, SubSeq(IF d[2] < 0 THEN hi ELSE d[1], 1, 32)>>[6]

fiat_sc255_from_bytes(b) == Words(b)
fiat_sc255_to_bytes(w) == Flat(w)
fiat_sc255_to_montgomery(w) == Words(MontMul(Flat(w), MontR2))
fiat_sc255_from_montgomery(w) == Words(MontMul(Flat(w), <<1>> \o Zeros(31)))
fiat_sc255_mul(x, y) == Words(MontMul(Flat(x), Flat(y)))
fiat_sc255_add(x, y) ==
  LET sum == NatAdd(Flat(x), Flat(y), 33)
      d == NatBorrow(sum, LBytes, 33)
  IN  Words(SubSeq(IF d[2] < 0 THEN sum ELSE d[1], 1, 32))
fiat_sc255_sub(x, y) ==
  LET d == NatBorrow(Flat(x), Flat(y), 32)
  IN  Words(IF d[2] < 0 THEN NatAdd(d[1], LBytes, 32) ELSE d[1])
fiat_sc255_opp(x) == fiat_sc255_sub(Words(Zeros(32)), x)

---------------------------------------------------------------------------
(* Scalar: constants and arithmetic.  A method is given the objects h (id   *)
(* -> Scalar) and the ids of its receiver and operands, which may be the    *)
(* same object, and yields the objects after the call.                      *)

scZeroBytes == Zeros(32)
scOneBytes == <<1>> \o Zeros(31)
scMinusOneBytes ==
  << 236, 211, 245, 92, 26, 99, 18, 88, 214, 156, 247, 162, 222, 249, 222, 20,
     0, 0, 0, 0, 0, 0, 0, 0, 0, 0, 0, 0, 0, 0, 0, 16 >>

scOne ==
  << U64(\Hd6ec, \H3174, \H8d98, \H951d), U64(\Hc6ef, \H5bf4, \H737d, \Hcf70),
     U64(\Hffff, \Hffff, \Hffff, \Hfffe), U64(\H0fff, \Hffff, \Hffff, \Hffff) >>
\* l - 1 as plain words, not in the Montgomery domain
scMinusOne_Plain == Words(scMinusOneBytes)

scMinusOne ==
  << U64(\H8126, \H31a5, \Hcf5d, \H3ed0), U64(\H4def, \H9dea, \H2f79, \Hcd65),
     U64(0, 0, 0, 1), U64(0, 0, 0, 0) >>

\* NewScalar: the zero value
NewScalar == Words(Zeros(32))

Scalar_Add(h, s, x, y) == [h EXCEPT ![s] = fiat_sc255_add(h[x], h[y])]
Scalar_Subtract(h, s, x, y) == [h EXCEPT ![s] = fiat_sc255_sub(h[x], h[y])]
Scalar_Negate(h, s, x) == [h EXCEPT ![s] = fiat_sc255_opp(h[x])]
Scalar_Multiply(h, s, x, y) == [h EXCEPT ![s] = fiat_sc255_mul(h[x], h[y])]
Scalar_Set(h, s, x) == [h EXCEPT ![s] = h[x]]

\* return s.Multiply(x, y).Add(s, z)
Scalar_MultiplyAdd(h, s, x, y, z) == Scalar_Add(Scalar_Multiply(h, s, x, y), s, s, z)

\* Bytes: out of the Montgomery domain, then serialised
Scalar_Bytes(v) == fiat_sc255_to_bytes(fiat_sc255_from_montgomery(v))

\* Equal: subtle.ConstantTimeCompare of the two encodings
Scalar_Equal(v, w) == IF Scalar_Bytes(v) = Scalar_Bytes(w) THEN 1 ELSE 0

---------------------------------------------------------------------------
(* int64 arithmetic: 8 bytes in two's complement, modulo 2^64.              *)

I64Add(a, b) == Carry256([i \in 1..8 |-> a[i] + b[i]])[1]
I64Sub(a, b) == Carry256([i \in 1..8 |-> a[i] - b[i]])[1]
\* a * k for a constant 0 <= k < 2^22
I64MulConst(a, k) == Carry256([i \in 1..8 |-> a[i] * k])[1]
\* a << n, n <= 21
I64Shl(a, n) == I64MulConst(a, 2^n)
\* a >> n, the arithmetic shift: the sign bit fills from the left
I64Sar(a, n) ==
  LET q == n \div 8
      r == n % 8
      fill == IF a[8] >= 128 THEN 255 ELSE 0
      ext(j) == IF j <= 8 THEN a[j] ELSE fill
  IN  Tup([i \in 1..8 |-> (ext(i + q) \div 2^r) + (ext(i + q + 1) % 2^r) * 2^(8 - r)])
\* a & 2097151, the low 21 bits
I64Mask21(a) == << a[1], a[2], a[3] % 32, 0, 0, 0, 0, 0 >>
\* the int64 of a small natural number
I64Const(k) == Carry256([i \in 1..8 |-> IF i = 1 THEN k ELSE 0])[1]

\* x | y on bytes
ByteOr(x, y) ==
  LET b(v, k) == (v \div 2^k) % 2
      RECURSIVE Bits(_)
      Bits(k) == IF k > 7 THEN 0
                 ELSE (IF b(x, k) + b(y, k) > 0 THEN 2^k ELSE 0) + Bits(k + 1)
  IN  Bits(0)

\* load3, load4: the bytes at Go index at.. of in, as an int64
load3(in, at) == << in[at + 1], in[at + 2], in[at + 3], 0, 0, 0, 0, 0 >>
load4(in, at) == << in[at + 1], in[at + 2], in[at + 3], in[at + 4], 0, 0, 0, 0 >>

---------------------------------------------------------------------------
(* scReduce: the 64 bytes s reduced modulo l to 32 bytes.  The limbs s0 ..  *)
(* s23 are a function on 0..23 of int64 values.                             *)

\* limb i of the input is (load3 or load4 at a byte offset) >> shift, masked to
\* 21 bits except for s23: <<width, offset, shift>> for s0 .. s23
LimbLoads ==
  << <<3, 0, 0>>,  <<4, 2, 5>>,  <<3, 5, 2>>,  <<4, 7, 7>>,
     <<4, 10, 4>>, <<3, 13, 1>>, <<4, 15, 6>>, <<3, 18, 3>>,
     <<3, 21, 0>>, <<4, 23, 5>>, <<3, 26, 2>>, <<4, 28, 7>>,
     <<4, 31, 4>>, <<3, 34, 1>>, <<4, 36, 6>>, <<3, 39, 3>>,
     <<3, 42, 0>>, <<4, 44, 5>>, <<3, 47, 2>>, <<4, 49, 7>>,
     <<4, 52, 4>>, <<3, 55, 1>>, <<4, 57, 6>>, <<4, 60, 3>> >>

LoadLimbs(s) ==
  [i \in 0..23 |->
     LET e == LimbLoads[i + 1]
         v == I64Sar(IF e[1] = 3 THEN load3(s, e[2]) ELSE load4(s, e[2]), e[3])
     IN  IF i = 23 THEN v ELSE I64Mask21(v)]

\* Fold with 666644 for the first constant
Fold_OffByOne(s, i) ==
  [s EXCEPT ![i - 12] = I64Add(@, I64MulConst(s[i], 666644)),
            ![i - 11] = I64Add(@, I64MulConst(s[i], 470296)),
            ![i - 10] = I64Add(@, I64MulConst(s[i], 654183)),
            ![i - 9] = I64Sub(@, I64MulConst(s[i], 997805)),
            ![i - 8] = I64Add(@, I64MulConst(s[i], 136657)),
            ![i - 7] = I64Sub(@, I64MulConst(s[i], 683901)),
            ![i] = I64Const(0)]

\* Fold with the fourth constant added where the source subtracts it
Fold_SignSlip(s, i) ==
  [s EXCEPT ![i - 12] = I64Add(@, I64MulConst(s[i], 666643)),
            ![i - 11] = I64Add(@, I64MulConst(s[i], 470296)),
            ![i - 10] = I64Add(@, I64MulConst(s[i], 654183)),
            ![i - 9] = I64Add(@, I64MulConst(s[i], 997805)),
            ![i - 8] = I64Add(@, I64MulConst(s[i], 136657)),
            ![i - 7] = I64Sub(@, I64MulConst(s[i], 683901)),
            ![i] = I64Const(0)]

\* s[i-12] += s[i] * 666643 ... s[i-7] -= s[i] * 683901; s[i] = 0
Fold(s, i) ==
  [s EXCEPT ![i - 12] = I64Add(@, I64MulConst(s[i], 666643)),
            ![i - 11] = I64Add(@, I64MulConst(s[i], 470296)),
            ![i - 10] = I64Add(@, I64MulConst(s[i], 654183)),
            ![i - 9] = I64Sub(@, I64MulConst(s[i], 997805)),
            ![i - 8] = I64Add(@, I64MulConst(s[i], 136657)),
            ![i - 7] = I64Sub(@, I64MulConst(s[i], 683901)),
            ![i] = I64Const(0)]

\* carry[i] = (s[i] + (1 << 20)) >> 21; s[i+1] += carry[i]; s[i] -= carry[i] << 21
CarrySigned(s, i) ==
  LET carry == I64Sar(I64Add(s[i], I64Const(2^20)), 21)
  IN  [s EXCEPT ![i + 1] = I64Add(@, carry), ![i] = I64Sub(@, I64Shl(carry, 21))]

\* carry[i] = s[i] >> 21; s[i+1] += carry[i]; s[i] -= carry[i] << 21
CarryPlain(s, i) ==
  LET carry == I64Sar(s[i], 21)
  IN  [s EXCEPT ![i + 1] = I64Add(@, carry), ![i] = I64Sub(@, I64Shl(carry, 21))]

\* the steps of scReduce after the loads, in the order of the source
ReduceSteps ==
  << <<"fold", 23>>, <<"fold", 22>>, <<"fold", 21>>, <<"fold", 20>>, <<"fold", 19>>,
     <<"fold", 18>>,
     <<"carry", 6>>, <<"carry", 8>>, <<"carry", 10>>, <<"carry", 12>>, <<"carry", 14>>,
     <<"carry", 16>>,
     <<"carry", 7>>, <<"carry", 9>>, <<"carry", 11>>, <<"carry", 13>>, <<"carry", 15>>,
     <<"fold", 17>>, <<"fold", 16>>, <<"fold", 15>>, <<"fold", 14>>, <<"fold", 13>>,
     <<"fold", 12>>,
     <<"carry", 0>>, <<"carry", 2>>, <<"carry", 4>>, <<"carry", 6>>, <<"carry", 8>>,
     <<"carry", 10>>,
     <<"carry", 1>>, <<"carry", 3>>, <<"carry", 5>>, <<"carry", 7>>, <<"carry", 9>>,
     <<"carry", 11>>,
     <<"fold", 12>>,
     <<"plain", 0>>, <<"plain", 1>>, <<"plain", 2>>, <<"plain", 3>>, <<"plain", 4>>,
     <<"plain", 5>>, <<"plain", 6>>, <<"plain", 7>>, <<"plain", 8>>, <<"plain", 9>>,
     <<"plain", 10>>, <<"plain", 11>>,
     <<"fold", 12>>,
     <<"plain", 0>>, <<"plain", 1>>, <<"plain", 2>>, <<"plain", 3>>, <<"plain", 4>>,
     <<"plain", 5>>, <<"plain", 6>>, <<"plain", 7>>, <<"plain", 8>>, <<"plain", 9>>,
     <<"plain", 10>> >>

ReduceStepOf(s, st) ==
  IF st[1] = "fold" THEN Fold(s, st[2])
  ELSE IF st[1] = "carry" THEN CarrySigned(s, st[2])
  ELSE CarryPlain(s, st[2])

\* the steps lo..hi in turn
RECURSIVE RunReduce(_, _, _)
RunReduce(s, lo, hi) ==
  IF lo > hi THEN s
  ELSE IF lo = hi THEN ReduceStepOf(s, ReduceSteps[lo])
  ELSE LET n == Quarter(lo, hi)
           q1 == RunReduce(s, lo, lo + n - 1)
           q2 == RunReduce(q1, lo + n, Upto(lo + 2 * n - 1, hi))
           q3 == RunReduce(q2, lo + 2 * n, Upto(lo + 3 * n - 1, hi))
       IN  <<q1, q2, q3, RunReduce(q3, lo + 3 * n, hi)>>[4]

\* out[j] = byte(s[a] >> n), or byte((s[a] >> n) | (s[a+1] << m)) when m > 0:
\* <<a, n, m>> for out[0] .. out[31]
PackBytes ==
  << <<0, 0, 0>>,  <<0, 8, 0>>,  <<0, 16, 5>>, <<1, 3, 0>>,  <<1, 11, 0>>, <<1, 19, 2>>,
     <<2, 6, 0>>,  <<2, 14, 7>>, <<3, 1, 0>>,  <<3, 9, 0>>,  <<3, 17, 4>>, <<4, 4, 0>>,
     <<4, 12, 0>>, <<4, 20, 1>>, <<5, 7, 0>>,  <<5, 15, 6>>, <<6, 2, 0>>,  <<6, 10, 0>>,
     <<6, 18, 3>>, <<7, 5, 0>>,  <<7, 13, 0>>, <<8, 0, 0>>,  <<8, 8, 0>>,  <<8, 16, 5>>,
     <<9, 3, 0>>,  <<9, 11, 0>>, <<9, 19, 2>>, <<10, 6, 0>>, <<10, 14, 7>>, <<11, 1, 0>>,
     <<11, 9, 0>>, <<11, 17, 0>> >>

Pack(s) ==
  Tup([j \in 1..32 |->
     LET e == PackBytes[j]
         lo == I64Sar(s[e[1]], e[2])[1]
     IN  IF e[3] = 0 THEN lo ELSE ByteOr(lo, I64Shl(s[e[1] + 1], e[3])[1])])

scReduce(s) ==
  LET limbs == RunReduce(LoadLimbs(s), 1, Len(ReduceSteps))
  IN  <<s, limbs, Pack(limbs)>>[3]

---------------------------------------------------------------------------
(* Scalar: decoding.  A decoder yields the objects after the call, the      *)
(* pointer it returns (the receiver's id, or "nil") and its error.          *)

\* x & y on bytes
ByteAnd(x, y) ==
  LET b(v, k) == (v \div 2^k) % 2
      RECURSIVE Bits(_)
      Bits(k) == IF k > 7 THEN 0
                 ELSE (IF b(x, k) + b(y, k) = 2 THEN 2^k ELSE 0) + Bits(k + 1)
  IN  Bits(0)

\* var a [n]byte; copy(a[:], x): the first min(n, len(x)) bytes of x, then zeros
CopyInto(n, x) == Tup([i \in 1..n |-> IF i <= Len(x) THEN x[i] ELSE 0])

Failed(h, e) == [h |-> h, ret |-> "nil", err |-> e]

\* the store of a decoder without the conversion to the Montgomery domain
Decoded_Plain(h, s, bytes32) ==
  << bytes32,
     [h |-> [h EXCEPT ![s] = fiat_sc255_from_bytes(bytes32)], ret |-> s, err |-> "nil"] >>[2]

\* fiat_sc255_from_bytes(&s.s, &reduced); fiat_sc255_to_montgomery(&s.s, &s.s);
\* return s, nil
Decoded(h, s, bytes32) ==
  << bytes32,
     [h |-> [h EXCEPT ![s] = fiat_sc255_to_montgomery(fiat_sc255_from_bytes(bytes32))],
      ret |-> s, err |-> "nil"] >>[2]

Scalar_SetUniformBytes(h, s, x) ==
  IF Len(x) # 64
  THEN Failed(h, "edwards25519: invalid SetUniformBytes input length")
  ELSE Decoded(h, s, scReduce(CopyInto(64, x)))

\* the scan of isReduced over the Go indices hi, hi - 1, .. lo against
\* scMinusOneBytes, from the verdict v of the indices above them: "reduced" or
\* "not reduced" where the loop returns, "tie" where it runs on
RECURSIVE isReducedFrom(_, _, _, _)
isReducedFrom(s, hi, lo, v) ==
  IF hi < lo \/ v # "tie" THEN v
  ELSE IF hi = lo
  THEN IF s[hi + 1] > scMinusOneBytes[hi + 1] THEN "not reduced"
       ELSE IF s[hi + 1] < scMinusOneBytes[hi + 1] THEN "reduced"
       ELSE "tie"
  ELSE LET n == Quarter(lo, hi)
           q1 == isReducedFrom(s, hi, hi - n + 1, v)
           q2 == isReducedFrom(s, hi - n, hi - Upto(2 * n - 1, hi - lo), q1)
           q3 == isReducedFrom(s, hi - 2 * n, hi - Upto(3 * n - 1, hi - lo), q2)
       IN  <<q1, q2, q3, isReducedFrom(s, hi - 3 * n, lo, q3)>>[4]

\* isReduced refusing the encoding whose 32 bytes all tie with l - 1
isReduced_TieRefused(s) ==
  IF Len(s) # 32 THEN FALSE ELSE isReducedFrom(s, Len(s) - 1, 0, "tie") = "reduced"

\* all 32 bytes tying, the loop ends and isReduced returns true
isReduced(s) ==
  IF Len(s) # 32 THEN FALSE ELSE isReducedFrom(s, Len(s) - 1, 0, "tie") # "not reduced"

\* SetCanonicalBytes storing the bytes before it checks them
Scalar_SetCanonicalBytes_StoreFirst(h, s, x) ==
  IF Len(x) # 32 THEN Failed(h, "invalid scalar length")
  ELSE IF ~isReduced(CopyInto(32, x))
       THEN Failed(Decoded(h, s, CopyInto(32, x)).h, "invalid scalar encoding")
  ELSE Decoded(h, s, CopyInto(32, x))

Scalar_SetCanonicalBytes(h, s, x) ==
  IF Len(x) # 32 THEN Failed(h, "invalid scalar length")
  ELSE IF ~isReduced(CopyInto(32, x)) THEN Failed(h, "invalid scalar encoding")
  ELSE Decoded(h, s, CopyInto(32, x))

\* the clamping with bit 254 set before the top bits are masked
Clamp_OrFirst(wideBytes) ==
  [wideBytes EXCEPT ![1] = ByteAnd(@, 248), ![32] = ByteAnd(ByteOr(@, 64), 63)]

\* wideBytes[0] &= 248; wideBytes[31] &= 63; wideBytes[31] |= 64
Clamp(wideBytes) ==
  [wideBytes EXCEPT ![1] = ByteAnd(@, 248), ![32] = ByteOr(ByteAnd(@, 63), 64)]

Scalar_SetBytesWithClamping(h, s, x) ==
  IF Len(x) # 32
  THEN Failed(h, "edwards25519: invalid SetBytesWithClamping input length")
  ELSE Decoded(h, s, scReduce(Clamp(CopyInto(64, x))))

---------------------------------------------------------------------------
(* The Scalar scenarios: two Scalar objects, one call on them.              *)

ScalarIds == {"s", "t"}

NoCall == [op |-> "none", recv |-> "nil", args |-> <<>>, input |-> <<>>]

\* no ScalarMult is running
NoLadder == [v |-> "nil", k |-> <<>>, i |-> -1, r1 |-> <<>>]

\* a scenario without points
NoPoints ==
  /\ points = <<>>
  /\ prePoints = <<>>
  /\ todo = <<>>
  /\ ladder = NoLadder
  /\ multiple = <<>>

\* a call of a method on receiver s with operands args (ids) and input buffer
\* buf: r is what it yields
Called(op, s, args, r) ==
  /\ pc = "ready"
  /\ pc' = "done"
  /\ pre' = scalars
  /\ call' = [op |-> op, recv |-> s, args |-> args, input |-> buf]
  /\ scalars' = r.h
  /\ ret' = r.ret
  /\ err' = r.err
  /\ UNCHANGED <<buf, digits, panicked, points, prePoints, todo, ladder, multiple>>

Method(h, s) == [h |-> h, ret |-> s, err |-> "nil"]

AddCall(s, x, y) == Called("Add", s, <<x, y>>, Method(Scalar_Add(scalars, s, x, y), s))
SubtractCall(s, x, y) ==
  Called("Subtract", s, <<x, y>>, Method(Scalar_Subtract(scalars, s, x, y), s))
NegateCall(s, x) == Called("Negate", s, <<x>>, Method(Scalar_Negate(scalars, s, x), s))
MultiplyCall(s, x, y) ==
  Called("Multiply", s, <<x, y>>, Method(Scalar_Multiply(scalars, s, x, y), s))
SetCall(s, x) == Called("Set", s, <<x>>, Method(Scalar_Set(scalars, s, x), s))
MultiplyAddCall(s, x, y, z) ==
  Called("MultiplyAdd", s, <<x, y, z>>, Method(Scalar_MultiplyAdd(scalars, s, x, y, z), s))

SetUniformBytesCall(s) ==
  Called("SetUniformBytes", s, <<>>, Scalar_SetUniformBytes(scalars, s, buf))
SetCanonicalBytesCall(s) ==
  Called("SetCanonicalBytes", s, <<>>, Scalar_SetCanonicalBytes(scalars, s, buf))
SetBytesWithClampingCall(s) ==
  Called("SetBytesWithClamping", s, <<>>, Scalar_SetBytesWithClamping(scalars, s, buf))

---------------------------------------------------------------------------
(* Digit expansions of a Scalar: nonAdjacentForm and signedRadix16.         *)

Pow2(n) == 2 ^ n

\* the conversion int8(v) of an integer: the low 8 bits, in two's complement
Int8(v) == LET m == v % 256 IN IF m >= 128 THEN m - 256 ELSE m

\* bit j (0..63) of a uint64, and bit t of x >> n and of x << n
WordBit(x, j) == (x[(j \div 8) + 1] \div Pow2(j % 8)) % 2
ShrBit(x, n, t) == IF t + n < 64 THEN WordBit(x, t + n) ELSE 0
ShlBit(x, n, t) == IF t >= n /\ t - n < 64 THEN WordBit(x, t - n) ELSE 0

\* digits[0..4]: the four little-endian words of b, and a zero word
NafWords(b) == Words(b) \o <<Zeros(8)>>

RECURSIVE LowBits(_, _, _, _)
LowBits(bit, w, t, acc) ==
  IF t = w THEN acc ELSE LowBits(bit, w, t + 1, acc + bit[t] * Pow2(t))

\* bitBuf & windowMask with the window inside one word only (no combination)
BitBuf_SingleWord(d, pos, w) ==
  LET indexU64 == pos \div 64
      indexBit == pos % 64
  IN  LowBits([t \in 0..(w - 1) |-> ShrBit(d[indexU64 + 1], indexBit, t)], w, 0, 0)

\* bitBuf & windowMask at position pos: the w bits from pos on, taken from
\* one word or combined from two
BitBuf(d, pos, w) ==
  LET indexU64 == pos \div 64
      indexBit == pos % 64
      one == [t \in 0..(w - 1) |-> ShrBit(d[indexU64 + 1], indexBit, t)]
      two == [t \in 0..(w - 1) |->
                IF ShrBit(d[indexU64 + 1], indexBit, t) = 1
                   \/ ShlBit(d[indexU64 + 2], 64 - indexBit, t) = 1
                THEN 1 ELSE 0]
  IN  LowBits(IF indexBit < 64 - w THEN one ELSE two, w, 0, 0)

\* one round of the loop of nonAdjacentForm: st = <<pos, carry, naf>>
NafRound(d, w, st) ==
  LET pos == st[1]
      carry == st[2]
      width == Pow2(w)
      window == carry + BitBuf(d, pos, w)
  IN  IF window % 2 = 0 THEN <<pos + 1, carry, st[3]>>
      ELSE IF window < width \div 2
      THEN <<pos + w, 0, [st[3] EXCEPT ![pos + 1] = Int8(window)]>>
      ELSE <<pos + w, 1, [st[3] EXCEPT ![pos + 1] = Int8(Int8(window) - Int8(width))]>>

\* the loop over the positions lo..hi: a round is run at the positions the
\* loop comes by, the others are passed over
RECURSIVE NafLoop(_, _, _, _, _)
NafLoop(d, w, st, lo, hi) ==
  IF lo > hi THEN st
  ELSE IF lo = hi THEN (IF st[1] = lo THEN NafRound(d, w, st) ELSE st)
  ELSE LET n == Quarter(lo, hi)
           q1 == NafLoop(d, w, st, lo, lo + n - 1)
           q2 == NafLoop(d, w, q1, lo + n, Upto(lo + 2 * n - 1, hi))
           q3 == NafLoop(d, w, q2, lo + 2 * n, Upto(lo + 3 * n - 1, hi))
       IN  <<q1, q2, q3, NafLoop(d, w, q3, lo + 3 * n, hi)>>[4]

Panic(msg) == [panic |-> msg, digits |-> <<>>]
Digits(ds) == [panic |-> "nil", digits |-> ds]

\* s.nonAdjacentForm(w) for the Scalar value v: digit i of the source is
\* digits[i + 1]
nonAdjacentForm(v, w) ==
  LET b == Scalar_Bytes(v)
  IN  IF b[32] > 127 THEN Panic("scalar has high bit set illegally")
      ELSE IF w < 2 THEN Panic("w must be at least 2 by the definition of NAF")
      ELSE IF w > 8 THEN Panic("NAF digits must fit in int8")
      ELSE Digits(NafLoop(NafWords(b), w, <<0, 0, Zeros(256)>>, 0, 255)[3])

\* the unsigned radix-16 digits of b
Nibbles(b) ==
  Tup([k \in 1..64 |->
         IF k % 2 = 1 THEN Int8(b[(k + 1) \div 2] % 16)
         ELSE Int8((b[k \div 2] \div 16) % 16)])

\* the carry out of digit d when it is recentred
RecenterCarry_Late(d) == Int8(d + 7) \div 16
RecenterCarry(d) == Int8(d + 8) \div 16

\* one round of the recentring loop of signedRadix16, at index i of the source
RecenterRound(ds, i) ==
  LET carry == RecenterCarry(ds[i + 1])
  IN  [ds EXCEPT ![i + 1] = Int8(@ - Int8(carry * 16)), ![i + 2] = Int8(@ + carry)]

\* the rounds lo..hi
RECURSIVE Recenter(_, _, _)
Recenter(ds, lo, hi) ==
  IF lo > hi THEN ds
  ELSE IF lo = hi THEN RecenterRound(ds, lo)
  ELSE LET n == Quarter(lo, hi)
           q1 == Recenter(ds, lo, lo + n - 1)
           q2 == Recenter(q1, lo + n, Upto(lo + 2 * n - 1, hi))
           q3 == Recenter(q2, lo + 2 * n, Upto(lo + 3 * n - 1, hi))
       IN  <<q1, q2, q3, Recenter(q3, lo + 3 * n, hi)>>[4]

signedRadix16(v) ==
  LET b == Scalar_Bytes(v)
  IN  IF b[32] > 127 THEN Panic("scalar has high bit set illegally")
      ELSE Digits(Recenter(Nibbles(b), 0, 62))

\* a call of a digit expansion on the Scalar s: it returns an array or panics,
\* and stores nothing
Expanded(op, s, args, r) ==
  /\ pc = "ready"
  /\ pc' = IF r.panic = "nil" THEN "done" ELSE "panicked"
  /\ pre' = scalars
  /\ call' = [op |-> op, recv |-> s, args |-> args, input |-> buf]
  /\ digits' = r.digits
  /\ panicked' = r.panic
  /\ UNCHANGED <<scalars, buf, ret, err, points, prePoints, todo, ladder, multiple>>

nonAdjacentFormCall(s, w) ==
  Expanded("nonAdjacentForm", s, <<w>>, nonAdjacentForm(scalars[s], w))
signedRadix16Call(s) == Expanded("signedRadix16", s, <<>>, signedRadix16(scalars[s]))

---------------------------------------------------------------------------
(* Inputs of the Scalar scenarios.                                          *)

\* the last index of the generated scalar values and of the generated wide inputs
MaxScalarSample == 3
MaxWideSample == 5

\* canonical encodings: 0, 1, l - 1, then generated values below 2^252
ScalarSample(i) ==
  IF i = 0 THEN scZeroBytes
  ELSE IF i = 1 THEN scOneBytes
  ELSE IF i = 2 THEN scMinusOneBytes
  ELSE Tup([j \in 1..32 |-> IF j = 32 THEN (i * 5 + 3) % 16 ELSE (i * 73 + j * 151 + 29) % 256])

\* the Scalar SetCanonicalBytes(b) makes of a canonical encoding b
FromCanonical(b) == Scalar_SetCanonicalBytes([o \in {"s"} |-> NewScalar], "s", b).h["s"]

ArithValues == {FromCanonical(ScalarSample(i)) : i \in 0..MaxScalarSample}

Bytes255(n) == Tup([i \in 1..n |-> 255])

\* l - 1 with byte i one lower, and the same with every byte below i at 255
TweakDown(i) == [scMinusOneBytes EXCEPT ![i] = @ - 1]
TweakDownHigh(i) ==
  Tup([j \in 1..32 |-> IF j < i THEN 255 ELSE TweakDown(i)[j]])
\* l - 1 with byte i one higher, and the same with every byte below i at 0
TweakUp(i) == [scMinusOneBytes EXCEPT ![i] = @ + 1]
TweakUpLow(i) ==
  Tup([j \in 1..32 |-> IF j < i THEN 0 ELSE TweakUp(i)[j]])

\* 32-byte inputs around l - 1, byte by byte, and the named values
NarrowInputs ==
  {TweakDown(i) : i \in {j \in 1..32 : scMinusOneBytes[j] > 0}}
    \cup {TweakDownHigh(i) : i \in {j \in 1..32 : scMinusOneBytes[j] > 0}}
    \cup {TweakUp(i) : i \in 1..32}
    \cup {TweakUpLow(i) : i \in 1..32}
    \cup {scZeroBytes, scOneBytes, scMinusOneBytes, LBytes,
          NatAdd(LBytes, <<1>>, 32), Bytes255(32)}

\* a generated multiplier of 32 bytes, and k * l + r as 64 bytes
WideFactor(v) == Tup([j \in 1..32 |-> (j * j * 37 + j * 11 + v * 101 + 5) % 256])
Multiple(k, r) == NatAdd(NatMul(k, LBytes), r, 64)

\* 64-byte inputs: the extremes, multiples of l plus l - 1, 0 and 2^252, and
\* generated values
WideInputs ==
  {Zeros(64), Bytes255(64), scMinusOneBytes \o Zeros(32), LBytes \o Zeros(32)}
    \cup {Multiple(WideFactor(v), scMinusOneBytes) : v \in 0..MaxWideSample}
    \cup {Multiple(WideFactor(v), scZeroBytes) : v \in 0..MaxWideSample}
    \cup {Multiple(WideFactor(v), Zeros(31) \o <<16>>) : v \in 0..MaxWideSample}
    \cup {Tup([j \in 1..64 |-> (j * j * 41 + j * 7 + v * 89 + 13) % 256]) : v \in 0..MaxWideSample}

\* 32-byte inputs for the clamping: every combination of the two top bits of
\* byte 31 with low bits of byte 0 set or clear, over a generated body
ClampInputs ==
  {Tup([j \in 1..32 |->
          IF j = 1 THEN lowByte ELSE IF j = 32 THEN top ELSE (j * 83 + top + 17) % 256])
     : lowByte \in {7, 8, 249}, top \in {0, 63, 64, 128, 191, 192}}

\* inputs of a wrong length for every decoder
OddInputs == {<<>>, Zeros(31), Bytes255(31), Zeros(33), Bytes255(63), Zeros(65)}

DecodeInputs == NarrowInputs \cup ClampInputs \cup WideInputs \cup OddInputs

\* the last index of the generated values the digit expansions are taken of
MaxDigitSample == 7

\* generated canonical encodings below 2^252 with runs of set bits
DenseSample(i) ==
  Tup([j \in 1..32 |->
         IF j = 32 THEN (i * 7 + 8) % 16
         ELSE IF (i + j) % 3 = 0 THEN 255
         ELSE (i * 97 + j * j * 59 + 127) % 256])

\* the encodings the digit expansions are taken of: 0, 1, l - 1, 2^252 - 1,
\* 2^252, alternating bits, all bits set but one, and generated values
DigitEncodings ==
  {scZeroBytes, scOneBytes, scMinusOneBytes,
   Bytes255(31) \o <<15>>, Zeros(31) \o <<16>>,
   Tup([j \in 1..32 |-> IF j = 32 THEN 5 ELSE 85]),
   Tup([j \in 1..32 |-> IF j = 32 THEN 10 ELSE 170]),
   Tup([j \in 1..32 |-> IF j = 32 THEN 15 ELSE IF j = 8 THEN 127 ELSE 255]),
   Tup([j \in 1..32 |-> IF j = 32 THEN 7 ELSE IF j % 8 = 0 THEN 128 ELSE 0])}
    \cup {ScalarSample(i) : i \in 3..(3 + MaxDigitSample)}
    \cup {DenseSample(i) : i \in 0..MaxDigitSample}

DigitValues == {FromCanonical(b) : b \in DigitEncodings}

---------------------------------------------------------------------------
(* Specifications of the Scalar scenarios.                                  *)

\* arithmetic: the objects hold any of the sample values; one method is called
\* with any choice of receiver and operands among the objects
InitArith ==
  /\ pc = "ready"
  /\ scalars \in [ScalarIds -> ArithValues]
  /\ pre = scalars
  /\ call = NoCall
  /\ buf = <<>>
  /\ ret = "nil"
  /\ err = "nil"
  /\ digits = <<>>
  /\ panicked = "nil"
  /\ NoPoints

NextArith ==
  \E s, x, y, z \in ScalarIds :
    \/ AddCall(s, x, y)
    \/ SubtractCall(s, x, y)
    \/ NegateCall(s, x)
    \/ MultiplyCall(s, x, y)
    \/ SetCall(s, x)
    \/ MultiplyAddCall(s, x, y, z)

SpecArith == InitArith /\ [][NextArith]_vars

\* decoding: the objects hold 1 and -1; one decoder is called on either with
\* the caller's buffer
InitDecode ==
  /\ pc = "ready"
  /\ scalars = [o \in ScalarIds |-> IF o = "s" THEN scOne ELSE scMinusOne]
  /\ pre = scalars
  /\ call = NoCall
  /\ buf \in DecodeInputs
  /\ ret = "nil"
  /\ err = "nil"
  /\ digits = <<>>
  /\ panicked = "nil"
  /\ NoPoints

NextDecode ==
  \E s \in ScalarIds :
    \/ SetUniformBytesCall(s)
    \/ SetCanonicalBytesCall(s)
    \/ SetBytesWithClampingCall(s)

SpecDecode == InitDecode /\ [][NextDecode]_vars

\* digit expansions: s holds any of the sample values, t holds -1; one
\* expansion is taken of either, with any width from 1 to 9
InitDigits ==
  /\ pc = "ready"
  /\ scalars \in {[o \in ScalarIds |-> IF o = "s" THEN v ELSE scMinusOne] : v \in DigitValues}
  /\ pre = scalars
  /\ call = NoCall
  /\ buf = <<>>
  /\ ret = "nil"
  /\ err = "nil"
  /\ digits = <<>>
  /\ panicked = "nil"
  /\ NoPoints

NextDigits ==
  \E s \in ScalarIds :
    \/ \E w \in 1..9 : nonAdjacentFormCall(s, w)
    \/ signedRadix16Call(s)

SpecDigits == InitDigits /\ [][NextDigits]_vars

---------------------------------------------------------------------------
(* Claims about Scalar.                                                     *)

Returned(op) == pc = "done" /\ call.op = op

\* the value of the operand k of the last call, as it was before the call
OperandBytes(k) == Scalar_Bytes(pre[call.args[k]])

\* C1: after s.MultiplyAdd(x, y, z), with any operands being the same object as
\* s, s is (x * y + z) mod l for the values x, y, z had before the call.
C1_MultiplyAddAnyAlias ==
  Returned("MultiplyAdd") =>
    Scalar_Bytes(scalars[call.recv]) =
      ModL(NatAdd(NatMul(OperandBytes(1), OperandBytes(2)), OperandBytes(3), 64))

\* C2: for every 64-byte input w, SetUniformBytes(w) succeeds, scReduce writes
\* the 32 bytes of W mod l, an integer below l, and Bytes() returns them.
C2_UniformReduction ==
  (Returned("SetUniformBytes") /\ Len(call.input) = 64) =>
    /\ ret = call.recv
    /\ err = "nil"
    /\ scReduce(call.input) = ModL(call.input)
    /\ NatLess(scReduce(call.input), LBytes)
    /\ Scalar_Bytes(scalars[call.recv]) = ModL(call.input)

\* a 64-byte input beyond 2^504 whose residue is l - 1 was decoded
C2_Witness ==
  /\ Returned("SetUniformBytes")
  /\ Len(call.input) = 64
  /\ call.input[64] > 0
  /\ ret = call.recv
  /\ Scalar_Bytes(scalars[call.recv]) = scMinusOneBytes

\* C3: SetCanonicalBytes(x) succeeds exactly when x has 32 bytes and its value
\* is below l; a 32-byte value of l or more gets the invalid-encoding error.
C3_CanonicalIff ==
  Returned("SetCanonicalBytes") =>
    /\ (ret = call.recv /\ err = "nil") <=>
         (Len(call.input) = 32 /\ NatLess(call.input, LBytes))
    /\ (Len(call.input) = 32 /\ ~NatLess(call.input, LBytes)) =>
         (ret = "nil" /\ err = "invalid scalar encoding")
    /\ ret \in {call.recv, "nil"}

\* l - 1, where all 32 bytes tie with the reference, was accepted
C3_Witness ==
  /\ Returned("SetCanonicalBytes")
  /\ call.input = scMinusOneBytes
  /\ ret = call.recv
  /\ err = "nil"

\* the inputs on which the decoder op fails
DecodeFails(op, x) ==
  \/ op = "SetUniformBytes" /\ Len(x) # 64
  \/ op = "SetBytesWithClamping" /\ Len(x) # 32
  \/ op = "SetCanonicalBytes" /\ (Len(x) # 32 \/ ~NatLess(x, LBytes))

Decoders == {"SetUniformBytes", "SetCanonicalBytes", "SetBytesWithClamping"}

\* C4: a decoder that fails returns nil and an error and leaves the receiver
\* (every object) as it was; no decoder changes the caller's buffer.
C4_FailureLeavesReceiver ==
  (pc = "done" /\ call.op \in Decoders) =>
    /\ buf = call.input
    /\ DecodeFails(call.op, call.input) =>
         (ret = "nil" /\ err # "nil" /\ scalars = pre)

\* a 32-byte encoding of l was refused and the receiver, which held 1, still does
C4_Witness ==
  /\ Returned("SetCanonicalBytes")
  /\ call.input = LBytes
  /\ call.recv = "s"
  /\ ret = "nil"
  /\ err # "nil"
  /\ scalars["s"] = scOne

\* the integer sum(ds[i + 1] * base^i) of signed digits, per of them to a
\* byte, as <<32 bytes, what is left over>>
RECURSIVE ByteColumn(_, _, _, _, _)
ByteColumn(ds, from, per, base, t) ==
  IF t = per THEN 0
  ELSE ds[from + t] + base * ByteColumn(ds, from, per, base, t + 1)

DigitsValue(ds, per, base) ==
  Carry256([j \in 1..32 |-> ByteColumn(ds, per * (j - 1) + 1, per, base, 0)])

\* C5: for a width w in 2..8, nonAdjacentForm(w) returns 256 digits whose sum
\* of digit[i] * 2^i is the scalar's value, nothing being left over, and each
\* nonzero digit is odd and below 2^(w-1) in absolute value.
C5_NafReconstructs ==
  (pc = "done" /\ call.op = "nonAdjacentForm") =>
    /\ call.args[1] \in 2..8
    /\ Len(digits) = 256
    /\ DigitsValue(digits, 8, 2) = <<Scalar_Bytes(scalars[call.recv]), 0>>
    /\ \A i \in 1..256 :
         digits[i] # 0 =>
           /\ digits[i] % 2 = 1
           /\ digits[i] < Pow2(call.args[1] - 1)
           /\ -digits[i] < Pow2(call.args[1] - 1)

\* width 8 on 2^252 - 1: a window of 128 or more was turned negative, and the
\* carry went up to bit 252
C5_Witness ==
  /\ pc = "done"
  /\ call.op = "nonAdjacentForm"
  /\ call.args[1] = 8
  /\ Scalar_Bytes(scalars[call.recv]) = Bytes255(31) \o <<15>>
  /\ \E i \in 1..256 : digits[i] < 0
  /\ digits[253] = 1

\* C6: signedRadix16 returns 64 digits whose sum of digit[i] * 16^i is the
\* scalar's value, every digit, the last included, being in -8..7.
C6_Radix16Reconstructs ==
  (pc = "done" /\ call.op = "signedRadix16") =>
    /\ Len(digits) = 64
    /\ DigitsValue(digits, 2, 16) = <<Scalar_Bytes(scalars[call.recv]), 0>>
    /\ \A i \in 1..64 : digits[i] \in -8..7

\* l - 1: the top nibble is 1 and the digit below it is recentred
C6_Witness ==
  /\ pc = "done"
  /\ call.op = "signedRadix16"
  /\ Scalar_Bytes(scalars[call.recv]) = scMinusOneBytes
  /\ digits[64] = 1
  /\ \E i \in 1..63 : digits[i] < 0

\* the integer the clamping leaves, by arithmetic on the bytes: the low three
\* bits of byte 0 and the two top bits of byte 31 dropped, 2^254 added
ClampedValue(x) == [x EXCEPT ![1] = @ - (@ % 8), ![32] = (@ % 64) + 64]

\* C11: for every 32-byte input x, SetBytesWithClamping(x) succeeds and sets
\* the scalar to C mod l, C being x with byte 0 &= 0xF8, byte 31 &= 0x3F,
\* byte 31 |= 0x40 (a multiple of 8 with 2^254 <= C < 2^255) placed in the low
\* half of a 64-byte buffer with a zero high half; Bytes() is below l.
C11_ClampedReduction ==
  (Returned("SetBytesWithClamping") /\ Len(call.input) = 32) =>
    /\ ret = call.recv
    /\ err = "nil"
    /\ ClampedValue(call.input)[32] \in 64..127
    /\ ClampedValue(call.input)[1] % 8 = 0
    /\ Clamp(CopyInto(64, call.input)) = ClampedValue(call.input) \o Zeros(32)
    /\ Scalar_Bytes(scalars[call.recv]) = ModL(ClampedValue(call.input))
    /\ NatLess(Scalar_Bytes(scalars[call.recv]), LBytes)

\* an input with the three low bits and both top bits set was clamped and
\* reduced: the scalar is neither the input nor the clamped integer
C11_Witness ==
  /\ Returned("SetBytesWithClamping")
  /\ Len(call.input) = 32
  /\ call.input[1] % 8 = 7
  /\ call.input[32] >= 192
  /\ ret = call.recv
  /\ Scalar_Bytes(scalars[call.recv]) # ClampedValue(call.input)
  /\ Scalar_Bytes(scalars[call.recv]) = ModL(ClampedValue(call.input))

\* C12: for every 32-byte encoding b of an integer below l, SetCanonicalBytes(b)
\* succeeds and Bytes() of the scalar it set returns exactly b.
C12_CanonicalRoundTrip ==
  (Returned("SetCanonicalBytes") /\ Len(call.input) = 32 /\ NatLess(call.input, LBytes)) =>
    /\ ret = call.recv
    /\ err = "nil"
    /\ Scalar_Bytes(scalars[call.recv]) = call.input

\* 2^252 - 1, every byte below the top at 255, came back from the object that
\* held -1 before
C12_Witness ==
  /\ Returned("SetCanonicalBytes")
  /\ call.input = Bytes255(31) \o <<15>>
  /\ call.recv = "t"
  /\ pre["t"] = scMinusOne
  /\ scalars["t"] # scMinusOne
  /\ Scalar_Bytes(scalars["t"]) = Bytes255(31) \o <<15>>

---------------------------------------------------------------------------
(* The field element of the point arithmetic (radix51.FieldElement): an     *)
(* integer modulo p = 2^255 - 19.  The package is handed it by another one;  *)
(* it is modelled by its contract, as the canonical residue in 17 limbs of   *)
(* 15 bits, least significant first, so that 2^255 = 19 falls on a limb      *)
(* boundary and two elements are equal exactly when their limbs are.         *)

FeBase == 32768
FeLimbs == 17

\* p = 2^255 - 19
FeP == Tup([k \in 1..FeLimbs |-> IF k = 1 THEN FeBase - 19 ELSE FeBase - 1])

\* carry propagation over the limbs lo..hi with the carry c coming in:
\* <<limbs, carry out>>
RECURSIVE FeCarry(_, _, _, _)
FeCarry(cols, lo, hi, c) ==
  IF lo > hi THEN << <<>>, c >>
  ELSE IF lo = hi
  THEN LET t == cols[lo] + c IN << <<t % FeBase>>, t \div FeBase >>
  ELSE LET n == Quarter(lo, hi)
           q1 == FeCarry(cols, lo, lo + n - 1, c)
           q2 == FeCarry(cols, lo + n, Upto(lo + 2 * n - 1, hi), q1[2])
           q3 == FeCarry(cols, lo + 2 * n, Upto(lo + 3 * n - 1, hi), q2[2])
           q4 == FeCarry(cols, lo + 3 * n, hi, q3[2])
       IN  <<q1[1] \o q2[1] \o q3[1] \o q4[1], q4[2]>>

\* An operator names its operands first, in a tuple, so that each is computed
\* before the operator's own work starts.

\* the carry propagation over all the limbs
FeCarryAll(cols) == <<cols, FeCarry(cols, 1, FeLimbs, 0)>>[2]

\* one pass: the limbs carried, and what is carried out of the top, times 2^255,
\* brought back as 19 times it at the bottom
FeWrap(r) == <<r, [r[1] EXCEPT ![1] = @ + 19 * r[2]]>>[2]
FePass(cols) == FeWrap(FeCarryAll(cols))

\* the canonical residue of a value below 2^255 + 2^15: p is taken off once
FeCanonical(a) ==
  IF a[1] >= FeBase - 19 /\ \A k \in 2..FeLimbs : a[k] = FeBase - 1
  THEN Tup([k \in 1..FeLimbs |-> IF k = 1 THEN a[1] - (FeBase - 19) ELSE 0])
  ELSE a

\* the element of the column sums cols (17 integers below 2^26 in absolute
\* value, of a sum that is not negative): three passes leave a value below
\* 2^255 with nothing to carry
FeLast(r) == <<r, FeCanonical(FeCarryAll(r)[1])>>[2]
FeNormal(cols) == FeLast(FePass(FePass(cols)))

\* the sum of a[i] * b[k - i] over the limbs i in lo..hi (limb i is a[i + 1]),
\* as <<sum of the low 15 bits of the products, sum of what is above them>>
RECURSIVE FeColumnSum(_, _, _, _, _)
FeColumnSum(a, b, k, lo, hi) ==
  IF lo > hi THEN <<0, 0>>
  ELSE IF lo = hi
  THEN LET t == a[lo + 1] * b[k - lo + 1] IN <<t % FeBase, t \div FeBase>>
  ELSE LET n == Quarter(lo, hi)
           q1 == FeColumnSum(a, b, k, lo, lo + n - 1)
           q2 == FeColumnSum(a, b, k, lo + n, Upto(lo + 2 * n - 1, hi))
           q3 == FeColumnSum(a, b, k, lo + 2 * n, Upto(lo + 3 * n - 1, hi))
           q4 == FeColumnSum(a, b, k, lo + 3 * n, hi)
       IN  <<q1[1] + q2[1] + q3[1] + q4[1], q1[2] + q2[2] + q3[2] + q4[2]>>

\* column k (0..32) of the product of a and b
FeColumn(a, b, k) ==
  FeColumnSum(a, b, k, IF k > FeLimbs - 1 THEN k - (FeLimbs - 1) ELSE 0,
                       IF k < FeLimbs - 1 THEN k ELSE FeLimbs - 1)

FieldElement_Zero == Tup([k \in 1..FeLimbs |-> 0])
FieldElement_One == Tup([k \in 1..FeLimbs |-> IF k = 1 THEN 1 ELSE 0])

FieldElement_Add(a, b) == <<a, b, FeNormal(Tup([k \in 1..FeLimbs |-> a[k] + b[k]]))>>[3]
FieldElement_Sub(a, b) ==
  <<a, b, FeNormal(Tup([k \in 1..FeLimbs |-> a[k] + FeP[k] - b[k]]))>>[3]
FieldElement_Neg(a) == FieldElement_Sub(FieldElement_Zero, a)

\* a * b: the 33 columns of the product, the part above each column's low 15
\* bits moved one column up (FeAt), and the columns from 2^255 on folded in 19
\* times (FeFold)
FeAt(cols, k) ==
  (IF k <= 2 * FeLimbs - 1 THEN cols[k][1] ELSE 0) + (IF k >= 2 THEN cols[k - 1][2] ELSE 0)
FeFold(cols) ==
  <<cols, FeNormal(Tup([k \in 1..FeLimbs |-> FeAt(cols, k) + 19 * FeAt(cols, k + FeLimbs)]))>>[2]
FieldElement_Mul(a, b) ==
  <<a, b, FeFold(Tup([k \in 1..(2 * FeLimbs - 1) |-> FeColumn(a, b, k - 1)]))>>[3]

FieldElement_Square(a) == FieldElement_Mul(a, a)

\* Equal: 1 when the canonical encodings are the same, else 0
FieldElement_Equal(a, b) == IF a = b THEN 1 ELSE 0

---------------------------------------------------------------------------
(* The curve -x^2 + y^2 = 1 + D*x^2*y^2 and its points in extended          *)
(* coordinates: a point is a record [X, Y, Z, T] of field elements with     *)
(* x = X/Z, y = Y/Z and T = X*Y/Z.                                          *)

\* D = -121665/121666
D ==
  << 30883, 9906, 14120, 12122, 2743, 10299, 4944, 14341, 6144,
     29649, 26077, 14851, 14540, 32718, 2779, 13943, 20995 >>

twoD == FieldElement_Add(D, D)

Point(X, Y, Z, T) == [X |-> X, Y |-> Y, Z |-> Z, T |-> T]

\* Zero with T = 1
ExtendedGroupElement_Zero_WithT ==
  Point(FieldElement_Zero, FieldElement_One, FieldElement_One, FieldElement_One)

\* Zero: the identity (0 : 1 : 1 : 0)
ExtendedGroupElement_Zero ==
  Point(FieldElement_Zero, FieldElement_One, FieldElement_One, FieldElement_Zero)

\* Set: a copy of u
ExtendedGroupElement_Set(u) == u

\* a value that is computed once and read several times is handed on as an
\* operand, the way the code hands it on in a local

\* X3 = E*F, Y3 = G*H, T3 = E*H, Z3 = F*G
Completed(E, F, G, H) ==
  <<E, F, G, H,
    Point(FieldElement_Mul(E, F), FieldElement_Mul(G, H),
          FieldElement_Mul(F, G), FieldElement_Mul(E, H))>>[5]

\* Add from A, B, C and D on: E = B-A, F = D-C, G = D+C, H = B+A
Add_EFGH(A, B, C, DD) ==
  <<A, B, C, DD,
    Completed(FieldElement_Sub(B, A), FieldElement_Sub(DD, C),
              FieldElement_Add(DD, C), FieldElement_Add(B, A))>>[5]

\* D = tmp1 + tmp1
Add_D(tmp1) == FieldElement_Add(tmp1, tmp1)

\* Add: add-2008-hwcd-3, A = (Y1-X1)*(Y2-X2), B = (Y1+X1)*(Y2+X2),
\* C = T1*T2*2d, D = 2*Z1*Z2; the result is stored once E, F, G and H are
\* computed
ExtendedGroupElement_Add(p1, p2) ==
  Add_EFGH(FieldElement_Mul(FieldElement_Sub(p1.Y, p1.X), FieldElement_Sub(p2.Y, p2.X)),
           FieldElement_Mul(FieldElement_Add(p1.Y, p1.X), FieldElement_Add(p2.Y, p2.X)),
           FieldElement_Mul(FieldElement_Mul(p1.T, p2.T), twoD),
           Add_D(FieldElement_Mul(p1.Z, p2.Z)))

\* Neg: X and T negated, Y and Z copied
ExtendedGroupElement_Neg(p) ==
  Point(FieldElement_Neg(p.X), p.Y, p.Z, FieldElement_Neg(p.T))

\* the statements of Neg, each on the objects as the one before left them
Neg_X(h, v, p) == <<h, [h EXCEPT ![v].X = FieldElement_Neg(h[p].X)]>>[2]
Neg_Y(h, v, p) == <<h, [h EXCEPT ![v].Y = h[p].Y]>>[2]
Neg_Z(h, v, p) == <<h, [h EXCEPT ![v].Z = h[p].Z]>>[2]
Neg_T(h, v, p) == <<h, [h EXCEPT ![v].T = FieldElement_Neg(h[p].T)]>>[2]

\* Neg on the objects h, with receiver v and operand p, which may be the same
\* object
ExtendedGroupElement_Neg_In(h, v, p) == Neg_T(Neg_Z(Neg_Y(Neg_X(h, v, p), v, p), v, p), v, p)

\* Equal, with T compared as well
ExtendedGroupElement_Equal_WithT(v, u) ==
  LET t1 == FieldElement_Mul(v.X, u.Z)
      t2 == FieldElement_Mul(u.X, v.Z)
      t3 == FieldElement_Mul(v.Y, u.Z)
      t4 == FieldElement_Mul(u.Y, v.Z)
      t5 == FieldElement_Mul(v.T, u.Z)
      t6 == FieldElement_Mul(u.T, v.Z)
  IN  IF t1 = t2 /\ t3 = t4 /\ t5 = t6 THEN 1 ELSE 0

\* Equal: 1 when X1*Z2 = X2*Z1 and Y1*Z2 = Y2*Z1, else 0
ExtendedGroupElement_Equal(v, u) ==
  LET t1 == FieldElement_Mul(v.X, u.Z)
      t2 == FieldElement_Mul(u.X, v.Z)
      t3 == FieldElement_Mul(v.Y, u.Z)
      t4 == FieldElement_Mul(u.Y, v.Z)
  IN  <<t1, t2, t3, t4,
        IF FieldElement_Equal(t1, t2) = 1 /\ FieldElement_Equal(t3, t4) = 1 THEN 1 ELSE 0>>[5]

\* ProjP3.Equal: the same comparison on the P3 representation
ProjP3_Equal(v, u) ==
  LET t1 == FieldElement_Mul(v.X, u.Z)
      t2 == FieldElement_Mul(u.X, v.Z)
      t3 == FieldElement_Mul(v.Y, u.Z)
      t4 == FieldElement_Mul(u.Y, v.Z)
  IN  <<t1, t2, t3, t4,
        IF FieldElement_Equal(t1, t2) = 1 /\ FieldElement_Equal(t3, t4) = 1 THEN 1 ELSE 0>>[5]

\* Double from G and H on: F = G-C
Double_F(C, E, G, H) == <<G, Completed(E, FieldElement_Sub(G, C), G, H)>>[2]

\* Double from D and E on, with H taken as D+B
Double_GH_SignSlip(B, C, DD, E) ==
  Double_F(C, E, FieldElement_Add(DD, B), FieldElement_Add(DD, B))

\* Double from D and E on: G = D+B, H = D-B
Double_GH(B, C, DD, E) ==
  <<DD, E, Double_F(C, E, FieldElement_Add(DD, B), FieldElement_Sub(DD, B))>>[3]

\* Double from A, B, C and t0 on: D = -A, E = t0 - A - B
Double_DE(A, B, C, t0) ==
  <<A, B, C, t0,
    Double_GH(B, C, FieldElement_Neg(A),
              FieldElement_Sub(FieldElement_Sub(t0, A), B))>>[5]

\* C = C + C
Double_C(C) == FieldElement_Add(C, C)

\* Double: dedicated doubling with a = -1, A = X1^2, B = Y1^2, C = 2*Z1^2,
\* t0 = (X1+Y1)^2
ExtendedGroupElement_Double(u) ==
  Double_DE(FieldElement_Square(u.X), FieldElement_Square(u.Y),
            Double_C(FieldElement_Square(u.Z)),
            FieldElement_Square(FieldElement_Add(u.X, u.Y)))

\* IsOnCurve from x^2 and y^2 on
IsOnCurve_Sides(lh, y2) ==
  FieldElement_Equal(
    FieldElement_Sub(FieldElement_Add(FieldElement_Neg(lh), y2),
                     FieldElement_Add(FieldElement_Mul(FieldElement_Mul(lh, y2), D),
                                      FieldElement_One)),
    FieldElement_Zero) = 1

\* IsOnCurve: -x^2 + y^2 - (1 + D*x^2*y^2) = 0 of affine coordinates
IsOnCurve(x, y) == IsOnCurve_Sides(FieldElement_Square(x), FieldElement_Square(y))

\* FromAffine: (x, y) as (x : y : 1 : x*y)
ExtendedGroupElement_FromAffine(x, y) ==
  Point(x, y, FieldElement_One, FieldElement_Mul(x, y))

---------------------------------------------------------------------------
(* Inputs of the point scenarios.                                           *)

\* affine points <<x, y>> of the curve
AffineSample == <<
  \* the identity
  << << 0, 0, 0, 0, 0, 0, 0, 0, 0,
        0, 0, 0, 0, 0, 0, 0, 0 >>,
     << 1, 0, 0, 0, 0, 0, 0, 0, 0,
        0, 0, 0, 0, 0, 0, 0, 0 >> >>,
  \* the base point B
  << << 21786, 7755, 13698, 19121, 31532, 9396, 22565, 5731, 23657,
        11704, 18423, 10001, 27658, 19071, 29531, 7017, 8553 >>,
     << 26200, 19660, 6553, 13107, 26214, 19660, 6553, 13107, 26214,
        19660, 6553, 13107, 26214, 19660, 6553, 13107, 26214 >> >>,
  \* the point of order 2
  << << 0, 0, 0, 0, 0, 0, 0, 0, 0,
        0, 0, 0, 0, 0, 0, 0, 0 >>,
     << 32748, 32767, 32767, 32767, 32767, 32767, 32767, 32767, 32767,
        32767, 32767, 32767, 32767, 32767, 32767, 32767, 32767 >> >>,
  \* a point of order 4
  << << 24381, 27618, 4962, 22671, 14451, 23043, 32340, 24179, 22736,
        2128, 6920, 6139, 19787, 17438, 27663, 28095, 21628 >>,
     << 0, 0, 0, 0, 0, 0, 0, 0, 0,
        0, 0, 0, 0, 0, 0, 0, 0 >> >>,
  \* a point of order 8
  << << 20810, 2699, 6427, 29962, 9101, 31932, 7172, 3230, 15196,
        15509, 18659, 7369, 3731, 10565, 398, 23760, 8149 >>,
     << 6087, 24788, 13557, 32450, 19364, 16743, 861, 13192, 10767,
        9792, 13289, 25033, 27756, 14569, 7679, 22089, 31235 >> >>,
  \* B plus the point of order 8
  << << 25390, 28393, 32083, 23037, 21295, 4496, 15052, 24621, 26702,
        6348, 17601, 27352, 21307, 21940, 32753, 5875, 28215 >>,
     << 20888, 23356, 28622, 5322, 21301, 886, 13463, 19999, 8901,
        18199, 27245, 594, 3791, 10130, 6190, 3564, 6520 >> >>,
  \* 2B
  << << 19982, 20615, 1336, 7725, 17912, 15092, 4421, 1735, 11272,
        26575, 29792, 8667, 17360, 16525, 10198, 7206, 13995 >>,
     << 9161, 22001, 6841, 29434, 5472, 1802, 21593, 7303, 22167,
        17470, 8998, 4855, 8666, 25912, 16968, 26361, 8800 >> >> >>

\* the same point with every coordinate multiplied by c
Scaled(P, c) ==
  Point(FieldElement_Mul(P.X, c), FieldElement_Mul(P.Y, c),
        FieldElement_Mul(P.Z, c), FieldElement_Mul(P.T, c))

\* scale factors: 1, 2 and a large one
ScaleSample == <<FieldElement_One, FieldElement_Add(FieldElement_One, FieldElement_One), D>>

\* the sample tuples as <<affine point, scale factor>>
PointTable == << <<1, 1>>, <<2, 1>>, <<2, 3>>, <<3, 2>>, <<4, 1>>, <<5, 3>>,
                 <<6, 2>>, <<1, 3>>, <<7, 1>>, <<6, 1>> >>

PointRows ==
  Tup([n \in 1..Len(PointTable) |->
        Scaled(ExtendedGroupElement_FromAffine(AffineSample[PointTable[n][1]][1],
                                               AffineSample[PointTable[n][1]][2]),
               ScaleSample[PointTable[n][2]])])

MaxPointSample == 8
PointSample == {PointRows[n] : n \in 1..MaxPointSample}

\* tuples whose T is not X*Y/Z
Skewed(P) == [P EXCEPT !.T = FieldElement_Add(P.T, FieldElement_One)]
SkewedSample == {Skewed(PointRows[2]), Skewed(PointRows[3])}

---------------------------------------------------------------------------
(* The point scenarios: point objects, and a caller making the calls of     *)
(* todo one after the other.                                                *)

PointIds == {"p", "q"}

PointCall(op, v, args) == [op |-> op, recv |-> v, args |-> args]

Calling(op) == pc = "ready" /\ todo # <<>> /\ Head(todo).op = op

\* the caller's call returns r, with the point objects left as h
PointCalled(h, r) ==
  /\ pc' = IF Len(todo) = 1 THEN "done" ELSE "ready"
  /\ todo' = Tail(todo)
  /\ prePoints' = points
  /\ call' = [op |-> Head(todo).op, recv |-> Head(todo).recv,
              args |-> Head(todo).args, input |-> <<>>]
  /\ points' = h
  /\ ret' = r
  /\ UNCHANGED <<scalars, pre, buf, err, digits, panicked, ladder, multiple>>

\* v.op(...) stores the value r in v and returns v
Stored(r) == PointCalled([points EXCEPT ![Head(todo).recv] = r], Head(todo).recv)

\* the operands of the caller's call
Operand(n) == points[Head(todo).args[n]]

PointZeroCall == Calling("ExtendedGroupElement.Zero") /\ Stored(ExtendedGroupElement_Zero)
PointSetCall ==
  Calling("ExtendedGroupElement.Set") /\ Stored(ExtendedGroupElement_Set(Operand(1)))
PointAddCall ==
  Calling("ExtendedGroupElement.Add")
    /\ Stored(ExtendedGroupElement_Add(Operand(1), Operand(2)))
PointNegCall ==
  Calling("ExtendedGroupElement.Neg")
    /\ PointCalled(ExtendedGroupElement_Neg_In(points, Head(todo).recv, Head(todo).args[1]),
                   Head(todo).recv)
PointDoubleCall ==
  Calling("ExtendedGroupElement.Double")
    /\ Stored(ExtendedGroupElement_Double(Operand(1)))
PointEqualCall ==
  Calling("ExtendedGroupElement.Equal")
    /\ PointCalled(points, ExtendedGroupElement_Equal(points[Head(todo).recv], Operand(1)))
P3EqualCall ==
  Calling("ProjP3.Equal")
    /\ PointCalled(points, ProjP3_Equal(points[Head(todo).recv], Operand(1)))

\* one call of the group operations, with any receiver and operands
OneCall(op, arity) ==
  {<<PointCall(op, v, args)>> : v \in PointIds, args \in [1..arity -> PointIds]}

Comparisons == OneCall("ExtendedGroupElement.Equal", 1) \cup OneCall("ProjP3.Equal", 1)

GroupCalls ==
  OneCall("ExtendedGroupElement.Zero", 0) \cup OneCall("ExtendedGroupElement.Set", 1)
    \cup OneCall("ExtendedGroupElement.Add", 2) \cup OneCall("ExtendedGroupElement.Neg", 1)
    \cup OneCall("ExtendedGroupElement.Double", 1)

\* the objects hold any of the sample points, or for a comparison any of the
\* sample tuples, and the caller makes one call
InitPoint ==
  /\ pc = "ready"
  /\ \/ todo \in GroupCalls /\ points \in [PointIds -> PointSample]
     \/ todo \in Comparisons /\ points \in [PointIds -> PointSample \cup SkewedSample]
  /\ prePoints = points
  /\ scalars = <<>>
  /\ pre = <<>>
  /\ call = NoCall
  /\ buf = <<>>
  /\ ret = "nil"
  /\ err = "nil"
  /\ digits = <<>>
  /\ panicked = "nil"
  /\ ladder = NoLadder
  /\ multiple = <<>>

NextPoint ==
  \/ PointZeroCall
  \/ PointSetCall
  \/ PointAddCall
  \/ PointNegCall
  \/ PointDoubleCall
  \/ PointEqualCall
  \/ P3EqualCall

SpecPoint == InitPoint /\ [][NextPoint]_vars

---------------------------------------------------------------------------
(* Claims about the group operations.                                       *)

\* every sample is a point of the curve
SamplesOnCurve ==
  \A n \in 1..Len(AffineSample) : IsOnCurve(AffineSample[n][1], AffineSample[n][2])

\* C9: Add is commutative, a point plus its negation is the identity, and
\* doubling a point is adding it to itself, all up to Equal. After
\* v.Add(p1, p2), v is Equal to Add of the operands the other way round; after
\* v.Neg(p), p plus v is Equal to Zero(); after v.Double(u), v is Equal to
\* Add(u, u). The operands are read as they were when the call was made.
C9_GroupLaws ==
  /\ Returned("ExtendedGroupElement.Add") =>
       LET P == prePoints[call.args[1]]
           Q == prePoints[call.args[2]]
       IN  ExtendedGroupElement_Equal(points[call.recv], ExtendedGroupElement_Add(Q, P)) = 1
  /\ Returned("ExtendedGroupElement.Neg") =>
       LET P == prePoints[call.args[1]]
       IN  ExtendedGroupElement_Equal(ExtendedGroupElement_Add(P, points[call.recv]),
                                      ExtendedGroupElement_Zero) = 1
  /\ Returned("ExtendedGroupElement.Double") =>
       LET P == prePoints[call.args[1]]
       IN  ExtendedGroupElement_Equal(points[call.recv], ExtendedGroupElement_Add(P, P)) = 1

\* B and a point of order 8, both with Z other than 1, have been added
C9_Witness ==
  /\ Returned("ExtendedGroupElement.Add")
  /\ SamplesOnCurve
  /\ prePoints[call.args[1]] = PointRows[3]
  /\ prePoints[call.args[2]] = PointRows[6]
  /\ ExtendedGroupElement_Equal(points[call.recv], PointRows[3]) = 0
  /\ ExtendedGroupElement_Equal(points[call.recv], PointRows[6]) = 0

\* the affine point that a sample tuple denotes, as its place in AffineSample
AffineOf(P) ==
  PointTable[CHOOSE n \in 1..Len(PointTable) :
               PointRows[n].X = P.X /\ PointRows[n].Y = P.Y /\ PointRows[n].Z = P.Z][1]

Compared(op, v, u) ==
  IF op = "ProjP3.Equal" THEN ProjP3_Equal(v, u) ELSE ExtendedGroupElement_Equal(v, u)

Compares == {"ProjP3.Equal", "ExtendedGroupElement.Equal"}

\* C10: v.Equal(u), of either point type, returns 1 when v and u denote the
\* same affine point and 0 when they do not; that is when X1*Z2 = X2*Z1 and
\* Y1*Z2 = Y2*Z1; u.Equal(v) returns the same; v is Equal to v scaled; and the
\* result is the same whatever T v or u has.
C10_EqualIsAffineEquality ==
  (pc = "done" /\ call.op \in Compares) =>
    LET v == points[call.recv]
        u == points[call.args[1]]
    IN  /\ ret = (IF AffineOf(v) = AffineOf(u) THEN 1 ELSE 0)
        /\ ret = 1 <=> /\ FieldElement_Mul(v.X, u.Z) = FieldElement_Mul(u.X, v.Z)
                       /\ FieldElement_Mul(v.Y, u.Z) = FieldElement_Mul(u.Y, v.Z)
        /\ Compared(call.op, u, v) = ret
        /\ Compared(call.op, v, Scaled(v, D)) = 1
        /\ Compared(call.op, [v EXCEPT !.T = FieldElement_Zero], u) = ret
        /\ Compared(call.op, v, [u EXCEPT !.T = FieldElement_Neg(v.T)]) = ret

\* two different tuples of the base point, one of them with another T, have
\* been found equal
C10_Witness ==
  /\ pc = "done"
  /\ call.op \in Compares
  /\ points[call.recv] = PointRows[2]
  /\ points[call.args[1]] = Skewed(PointRows[3])
  /\ ret = 1

---------------------------------------------------------------------------
(* ScalarMult, an iteration of its loop at a time. r0 is the receiver v    *)
(* itself; r1 is a new object.                                              *)

\* bit i of the 32 bytes k, read from the far end of each byte
KBit_Reversed(k, i) == (k[(i \div 8) + 1] \div Pow2(7 - (i % 8))) % 2

\* bit i of the 32 bytes k: (k[i/8] >> (i&7)) & 1
KBit(k, i) == (k[(i \div 8) + 1] \div Pow2(i % 8)) % 2

\* the start, with v set to zero before u is copied
ScalarMult_Init_ZeroFirst(h, v, u) ==
  [r1 |-> ExtendedGroupElement_Set([h EXCEPT ![v] = ExtendedGroupElement_Zero][u]),
   h |-> [h EXCEPT ![v] = ExtendedGroupElement_Zero]]

\* r1 := new(ExtendedGroupElement).Set(u), then r0 := v.Zero(): r1, and the
\* objects after the two
ScalarMult_Init(h, v, u) ==
  [r1 |-> ExtendedGroupElement_Set(h[u]),
   h |-> [h EXCEPT ![v] = ExtendedGroupElement_Zero]]

\* one iteration on the bit b: <<r0, r1>> after it
ScalarMult_Round(r0, r1, b) ==
  IF b = 0
  THEN <<ExtendedGroupElement_Double(r0), ExtendedGroupElement_Add(r0, r1)>>
  ELSE <<ExtendedGroupElement_Add(r0, r1), ExtendedGroupElement_Double(r1)>>

\* the 32 bytes the caller passes as k: its buffer, or the encoding of one of
\* its Scalars
KBytes(ref) == IF ref = "buf" THEN buf ELSE Scalar_Bytes(scalars[ref])

\* v.ScalarMult(u, k) is entered: k is the 32 bytes passed, st the start
Entered(k, st) ==
  /\ pc' = "ScalarMult"
  /\ prePoints' = points
  /\ call' = [op |-> Head(todo).op, recv |-> Head(todo).recv,
              args |-> Head(todo).args, input |-> k]
  /\ points' = st.h
  /\ ladder' = [v |-> Head(todo).recv, k |-> k, i |-> 255, r1 |-> st.r1]
  /\ UNCHANGED <<scalars, pre, buf, ret, err, digits, panicked, todo>>

ScalarMultBegin ==
  /\ Calling("ExtendedGroupElement.ScalarMult")
  /\ Entered(KBytes(Head(todo).args[2]),
             ScalarMult_Init(points, Head(todo).recv, Head(todo).args[1]))

\* the iteration for bit i has left r = <<r0, r1>>
Iterated(r) ==
  /\ points' = [points EXCEPT ![ladder.v] = r[1]]
  /\ ladder' = [ladder EXCEPT !.i = @ - 1, !.r1 = r[2]]
  /\ UNCHANGED <<pc, scalars, pre, call, buf, ret, err, digits, panicked, prePoints, todo>>

ScalarMultStep ==
  /\ pc = "ScalarMult"
  /\ ladder.i >= 0
  /\ Iterated(ScalarMult_Round(points[ladder.v], ladder.r1, KBit(ladder.k, ladder.i)))

\* the loop is over: r0 is returned
ScalarMultReturn ==
  /\ pc = "ScalarMult"
  /\ ladder.i < 0
  /\ pc' = IF Len(todo) = 1 THEN "done" ELSE "ready"
  /\ todo' = Tail(todo)
  /\ ret' = ladder.v
  /\ ladder' = NoLadder
  /\ UNCHANGED <<scalars, pre, call, buf, err, digits, panicked, points, prePoints>>

\* History. The sum of n copies of u, by additions alone, from the sum m of
\* floor(n / 2) copies and the low bit b of n
AddBit(m, b, u) == IF b = 1 THEN ExtendedGroupElement_Add(m, u) ELSE m
NextMultiple(m, b, u) == AddBit(ExtendedGroupElement_Add(m, m), b, u)

\* the point u that the running ScalarMult was called with
Multiplied == prePoints[call.args[1]]

\* ScalarMult with its history: multiple is the sum of floor(k / 2^(i+1))
\* copies of u, i the bit that comes next
TrackedBegin == ScalarMultBegin /\ multiple' = ExtendedGroupElement_Zero
TrackedStep ==
  ScalarMultStep /\ multiple' = NextMultiple(multiple, KBit(ladder.k, ladder.i), Multiplied)
TrackedReturn == ScalarMultReturn /\ UNCHANGED multiple

\* the calls v.ScalarMult(p, k) to follow: the sample tuple p holds, k, and
\* the receiver, which is p itself or the other object
LadderTable == <<
  \* B with a large Z, k = l - 1
  [u |-> 3, k |-> scMinusOneBytes, v |-> "q"],
  \* B plus the point of order 8, k = 2^255 + 2^253 + 77, which is not reduced
  [u |-> 7, k |-> <<77>> \o Zeros(30) \o <<160>>, v |-> "p"],
  \* a point of order 8, k = 0
  [u |-> 6, k |-> Zeros(32), v |-> "p"],
  \* B, k = 5
  [u |-> 2, k |-> <<5>> \o Zeros(31), v |-> "q"],
  \* the point of order 2, k = 2^256 - 1
  [u |-> 4, k |-> Bytes255(32), v |-> "q"],
  \* the identity, k = 2^256 - 1
  [u |-> 8, k |-> Bytes255(32), v |-> "p"] >>

MaxLadderSample == 4

InitLadder ==
  /\ pc = "ready"
  /\ \E n \in 1..MaxLadderSample :
       /\ points = [o \in PointIds |-> IF o = "p" THEN PointRows[LadderTable[n].u]
                                        ELSE PointRows[9]]
       /\ buf = LadderTable[n].k
       /\ todo = <<PointCall("ExtendedGroupElement.ScalarMult", LadderTable[n].v,
                             <<"p", "buf">>)>>
  /\ prePoints = points
  /\ scalars = <<>>
  /\ pre = <<>>
  /\ call = NoCall
  /\ ret = "nil"
  /\ err = "nil"
  /\ digits = <<>>
  /\ panicked = "nil"
  /\ ladder = NoLadder
  /\ multiple = <<>>

NextLadder ==
  \/ TrackedBegin
  \/ TrackedStep
  \/ TrackedReturn

SpecLadder == InitLadder /\ [][NextLadder]_vars

---------------------------------------------------------------------------
(* Claims about ScalarMult.                                                 *)

\* the sum of n copies of u, one addition after the other
RECURSIVE Sum(_, _)
Sum(u, n) == IF n = 0 THEN ExtendedGroupElement_Zero ELSE ExtendedGroupElement_Add(Sum(u, n - 1), u)

\* C8: while v.ScalarMult(u, k) runs, before and after each of the 256
\* iterations, r1 is Equal to r0 + u and r0 is Equal to the sum of
\* floor(k / 2^(i+1)) copies of u, i being the bit that comes next (so the sum
\* of k copies at the end), for the u the call was made with, be v the same
\* object as u or not; the call returns v, Equal to that sum: the identity for
\* k = 0, u + .. + u for a k below 8, and -u for k = l - 1 when u is the point B.
C8_LadderComputesMultiple ==
  /\ pc = "ScalarMult" =>
       /\ ExtendedGroupElement_Equal(ladder.r1,
            ExtendedGroupElement_Add(points[ladder.v], Multiplied)) = 1
       /\ ExtendedGroupElement_Equal(points[ladder.v], multiple) = 1
  /\ Returned("ExtendedGroupElement.ScalarMult") =>
       /\ ret = call.recv
       /\ ExtendedGroupElement_Equal(points[ret], multiple) = 1
       /\ call.input = Zeros(32) =>
            ExtendedGroupElement_Equal(points[ret], ExtendedGroupElement_Zero) = 1
       /\ (call.input[1] < 8 /\ SubSeq(call.input, 2, 32) = Zeros(31)) =>
            ExtendedGroupElement_Equal(points[ret], Sum(Multiplied, call.input[1])) = 1
       /\ (call.input = scMinusOneBytes /\ AffineOf(Multiplied) = 2) =>
            ExtendedGroupElement_Equal(points[ret], ExtendedGroupElement_Neg(Multiplied)) = 1

\* a call with v the same object as u and a k that has bit 255 set has
\* returned, and not the identity
C8_Witness ==
  /\ Returned("ExtendedGroupElement.ScalarMult")
  /\ call.recv = call.args[1]
  /\ KBit(call.input, 255) = 1
  /\ ExtendedGroupElement_Equal(points[ret], ExtendedGroupElement_Zero) = 0

---------------------------------------------------------------------------
(* The additive scenario: the caller multiplies the point p by the Scalars *)
(* s and t, adds t to s, multiplies p by the sum, adds the first two        *)
(* products and compares the result with the third.                         *)

AdditiveIds == {"p", "a", "b", "c"}

AdditiveCalls == <<
  PointCall("ExtendedGroupElement.ScalarMult", "a", <<"p", "s">>),
  PointCall("ExtendedGroupElement.ScalarMult", "b", <<"p", "t">>),
  PointCall("Scalar.Add", "s", <<"s", "t">>),
  PointCall("ExtendedGroupElement.ScalarMult", "c", <<"p", "s">>),
  PointCall("ExtendedGroupElement.Add", "a", <<"a", "b">>),
  PointCall("ExtendedGroupElement.Equal", "c", <<"a">>) >>

\* s.Add(x, y) as one of the caller's calls
ScalarAddCall ==
  /\ Calling("Scalar.Add")
  /\ pc' = IF Len(todo) = 1 THEN "done" ELSE "ready"
  /\ todo' = Tail(todo)
  /\ pre' = scalars
  /\ call' = [op |-> Head(todo).op, recv |-> Head(todo).recv,
              args |-> Head(todo).args, input |-> <<>>]
  /\ scalars' = Scalar_Add(scalars, Head(todo).recv, Head(todo).args[1], Head(todo).args[2])
  /\ ret' = Head(todo).recv
  /\ UNCHANGED <<buf, err, digits, panicked, points, prePoints, ladder, multiple>>

\* the sample tuple p holds, and the canonical encodings of s and t
AdditiveTable == <<
  \* the point of order 2, l - 1 and 1: the sum is l
  [p |-> 4, s |-> scMinusOneBytes, t |-> scOneBytes],
  \* B with a large Z, l - 1 and a value below 2^251: the sum is above l
  [p |-> 3, s |-> scMinusOneBytes, t |-> ScalarSample(3)],
  \* B plus the point of order 8, two values with a sum below l
  [p |-> 7, s |-> ScalarSample(3), t |-> ScalarSample(4)],
  \* a point of order 8, l - 1 twice
  [p |-> 6, s |-> scMinusOneBytes, t |-> scMinusOneBytes] >>

MaxAdditiveSample == 3

InitAdditive ==
  /\ pc = "ready"
  /\ \E n \in 1..MaxAdditiveSample :
       /\ points = [o \in AdditiveIds |-> IF o = "p" THEN PointRows[AdditiveTable[n].p]
                                           ELSE PointRows[9]]
       /\ scalars = [o \in ScalarIds |-> FromCanonical(IF o = "s" THEN AdditiveTable[n].s
                                                        ELSE AdditiveTable[n].t)]
  /\ todo = AdditiveCalls
  /\ prePoints = points
  /\ pre = scalars
  /\ call = NoCall
  /\ buf = <<>>
  /\ ret = "nil"
  /\ err = "nil"
  /\ digits = <<>>
  /\ panicked = "nil"
  /\ ladder = NoLadder
  /\ multiple = <<>>

NextAdditive ==
  \/ ScalarMultBegin /\ UNCHANGED multiple
  \/ ScalarMultStep /\ UNCHANGED multiple
  \/ ScalarMultReturn /\ UNCHANGED multiple
  \/ ScalarAddCall
  \/ PointAddCall
  \/ PointEqualCall

SpecAdditive == InitAdditive /\ [][NextAdditive]_vars

\* the sum of k copies of P, k a little-endian byte sequence, by additions
\* alone: the bits hi, hi - 1, .. lo, from the sum m for the bits above them
RECURSIVE TimesFrom(_, _, _, _, _)
TimesFrom(k, P, hi, lo, m) ==
  IF hi < lo THEN m
  ELSE IF hi = lo THEN NextMultiple(m, KBit(k, hi), P)
  ELSE LET n == Quarter(lo, hi)
           q1 == TimesFrom(k, P, hi, hi - n + 1, m)
           q2 == TimesFrom(k, P, hi - n, hi - Upto(2 * n - 1, hi - lo), q1)
           q3 == TimesFrom(k, P, hi - 2 * n, hi - Upto(3 * n - 1, hi - lo), q2)
       IN  <<q1, q2, q3, TimesFrom(k, P, hi - 3 * n, lo, q3)>>[4]

Times(k, P) == TimesFrom(k, P, 255, 0, ExtendedGroupElement_Zero)

\* l copies of P sum to the identity
OrderDividesL(P) ==
  ExtendedGroupElement_Equal(Times(LBytes, P), ExtendedGroupElement_Zero) = 1

\* the caller of the additive scenario has compared
SidesCompared == Returned("ExtendedGroupElement.Equal") /\ "c" \in DOMAIN points

\* the integers a and b that s and t held before they were added
SumBelowL == NatLess(NatAdd(Scalar_Bytes(pre["s"]), Scalar_Bytes(pre["t"]), 33), LBytes)

\* C7 as stated: for every point P and all scalars a and b,
\* ScalarMult(P, a + b) is Equal to Add(ScalarMult(P, a), ScalarMult(P, b)),
\* a + b being computed by Scalar.Add.
C7_AdditiveForEveryPoint == SidesCompared => ret = 1

\* C7, amended: ScalarMult(P, a + b) is Equal to
\* Add(ScalarMult(P, a), ScalarMult(P, b)) exactly when l copies of P sum to the
\* identity (P is in the subgroup of order l) or the integers a and b have a
\* sum below l, so that Scalar.Add does not reduce it.
C7_AdditiveUpToTheOrder ==
  SidesCompared => (ret = 1 <=> (OrderDividesL(points["p"]) \/ SumBelowL))

\* a point with a Z other than 1 has been multiplied by two scalars whose sum
\* Scalar.Add reduced, and the two sides were found equal
C7_Witness ==
  /\ SidesCompared
  /\ ret = 1
  /\ ~SumBelowL
  /\ points["p"].Z # FieldElement_One
  /\ ExtendedGroupElement_Equal(points["c"], ExtendedGroupElement_Zero) = 0

---------------------------------------------------------------------------
(* ProjectiveGroupElement: a record [X, Y, Z] with x = X/Z and y = Y/Z.     *)
(* DoubleZ1 is given the objects h and the ids of its receiver v and its    *)
(* operand u, which may be the same object; each of its statements that     *)
(* writes v is applied to the objects as the statement before left them.    *)

\* radix51.Two
FieldElement_Two == FieldElement_Add(FieldElement_One, FieldElement_One)

Projective(X, Y, Z) == [X |-> X, Y |-> Y, Z |-> Z]

\* the locals of DoubleZ1 from E on: F = E + D
DoubleZ1_F(B, C, DD, E) ==
  <<DD, E, [B |-> B, C |-> C, D |-> DD, E |-> E, F |-> FieldElement_Add(E, DD)]>>[3]

\* E = -C
DoubleZ1_E(B, C, DD) == <<B, C, DD, DoubleZ1_F(B, C, DD, FieldElement_Neg(C))>>[4]

\* B = (X1+Y1)^2, C = X1^2, D = Y1^2, read from u before v is written
DoubleZ1_Locals(u) ==
  DoubleZ1_E(FieldElement_Square(FieldElement_Add(u.X, u.Y)),
             FieldElement_Square(u.X), FieldElement_Square(u.Y))

\* v.Y.Sub(v.Y.Sub(&B, &C), &D)
DoubleZ1_BCD(h, v, u, t) ==
  [h EXCEPT ![v].Y = FieldElement_Sub(FieldElement_Sub(t.B, t.C), t.D)]

\* v.X.Mul(&v.Y, v.X.Sub(&F, radix51.Two))
DoubleZ1_X3(h, v, u, t) ==
  <<h, [h EXCEPT ![v].X = FieldElement_Mul(h[v].Y, FieldElement_Sub(t.F, FieldElement_Two))]>>[2]

\* Y3 with D squared from u.Y at this point, after v.Y was written
DoubleZ1_Y3_LateRead(h, v, u, t) ==
  <<h, [h EXCEPT ![v].Y =
          FieldElement_Mul(t.F, FieldElement_Sub(t.E, FieldElement_Square(h[u].Y)))]>>[2]

\* v.Y.Mul(&F, v.Y.Sub(&E, &D))
DoubleZ1_Y3(h, v, u, t) ==
  <<h, [h EXCEPT ![v].Y = FieldElement_Mul(t.F, FieldElement_Sub(t.E, t.D))]>>[2]

\* v.Z.Square(&F); v.Z.Sub(&v.Z, &F); v.Z.Sub(&v.Z, &F)
DoubleZ1_Z3(h, v, u, t) ==
  <<h, [h EXCEPT ![v].Z =
          FieldElement_Sub(FieldElement_Sub(FieldElement_Square(t.F), t.F), t.F)]>>[2]

\* the statements after the locals, in the order of the source
DoubleZ1_Writes(h, v, u, t) ==
  <<t, DoubleZ1_Z3(DoubleZ1_Y3(DoubleZ1_X3(DoubleZ1_BCD(h, v, u, t), v, u, t), v, u, t),
                   v, u, t)>>[2]

\* what a method that may panic yields: the objects it leaves, and the panic
Aborted(h, msg) == [h |-> h, panic |-> msg]
Completes(h) == [h |-> h, panic |-> "nil"]

\* DoubleZ1 testing Z once the receiver is written
ProjectiveGroupElement_DoubleZ1_CheckLast(h, v, u) ==
  IF FieldElement_Equal(h[u].Z, FieldElement_One) # 1
  THEN Aborted(DoubleZ1_Writes(h, v, u, DoubleZ1_Locals(h[u])),
               "ed25519: DoubleZ1 called with Z != 1")
  ELSE Completes(DoubleZ1_Writes(h, v, u, DoubleZ1_Locals(h[u])))

\* DoubleZ1: mdbl-2008-bbjlp with a = -1; it panics unless u.Z is 1
ProjectiveGroupElement_DoubleZ1(h, v, u) ==
  IF FieldElement_Equal(h[u].Z, FieldElement_One) # 1
  THEN Aborted(h, "ed25519: DoubleZ1 called with Z != 1")
  ELSE Completes(DoubleZ1_Writes(h, v, u, DoubleZ1_Locals(h[u])))

\* the caller's call of a method that may panic yields r
PointReturned(r) ==
  /\ pc' = IF r.panic # "nil" THEN "panicked"
           ELSE IF Len(todo) = 1 THEN "done" ELSE "ready"
  /\ todo' = Tail(todo)
  /\ prePoints' = points
  /\ call' = [op |-> Head(todo).op, recv |-> Head(todo).recv,
              args |-> Head(todo).args, input |-> <<>>]
  /\ points' = r.h
  /\ ret' = IF r.panic # "nil" THEN "nil" ELSE Head(todo).recv
  /\ panicked' = r.panic
  /\ UNCHANGED <<scalars, pre, buf, err, digits, ladder, multiple>>

DoubleZ1Call ==
  Calling("ProjectiveGroupElement.DoubleZ1")
    /\ PointReturned(ProjectiveGroupElement_DoubleZ1(points, Head(todo).recv,
                                                     Head(todo).args[1]))

---------------------------------------------------------------------------
(* Calls that break a contract: the digit expansions with any width, and    *)
(* DoubleZ1 on operands with any Z.                                         *)

\* the sample tuples of ProjectiveGroupElement as <<affine point, scale factor>>
ProjectiveTable == << <<2, 1>>, <<2, 2>>, <<1, 1>>, <<5, 1>>, <<6, 3>>, <<3, 1>>,
                      <<4, 1>>, <<7, 2>>, <<7, 1>> >>

ProjectiveRows ==
  Tup([n \in 1..Len(ProjectiveTable) |->
        Projective(
          FieldElement_Mul(AffineSample[ProjectiveTable[n][1]][1],
                           ScaleSample[ProjectiveTable[n][2]]),
          FieldElement_Mul(AffineSample[ProjectiveTable[n][1]][2],
                           ScaleSample[ProjectiveTable[n][2]]),
          ScaleSample[ProjectiveTable[n][2]])])

MaxProjectiveSample == 6
ProjectiveSample == {ProjectiveRows[n] : n \in 1..MaxProjectiveSample}

\* a tuple with Z = 0, which denotes no point
ZeroZ == Projective(FieldElement_One, FieldElement_One, FieldElement_Zero)

\* the widths nonAdjacentForm is called with: w is a uint
Widths == {0, 1, 2, 8, 9, 64, 2147483647}

\* either s holds any of the sample values and DoubleZ1 is due on a fixed
\* point, or the point objects hold any of the sample tuples and the scalars
\* are 1 and -1; one call is made
InitAbort ==
  /\ pc = "ready"
  /\ \/ /\ scalars \in {[o \in ScalarIds |-> IF o = "s" THEN v ELSE scMinusOne] :
                          v \in DigitValues}
        /\ points = [o \in PointIds |-> ProjectiveRows[1]]
        /\ todo = <<PointCall("ProjectiveGroupElement.DoubleZ1", "p", <<"q">>)>>
     \/ /\ scalars = [o \in ScalarIds |-> IF o = "s" THEN scOne ELSE scMinusOne]
        /\ points \in [PointIds -> ProjectiveSample \cup {ZeroZ}]
        /\ todo \in OneCall("ProjectiveGroupElement.DoubleZ1", 1)
  /\ pre = scalars
  /\ prePoints = points
  /\ call = NoCall
  /\ buf = <<>>
  /\ ret = "nil"
  /\ err = "nil"
  /\ digits = <<>>
  /\ panicked = "nil"
  /\ ladder = NoLadder
  /\ multiple = <<>>

NextAbort ==
  \/ \E s \in ScalarIds :
       \/ \E w \in Widths : nonAdjacentFormCall(s, w)
       \/ signedRadix16Call(s)
  \/ DoubleZ1Call

SpecAbort == InitAbort /\ [][NextAbort]_vars

\* the last call was of op and has returned or panicked
Ended(op) == pc \in {"done", "panicked"} /\ call.op = op

\* C13: a contract violation ends in a panic and no result. nonAdjacentForm(w)
\* panics for every w < 2 and every w > 8 and for a scalar whose encoding has
\* byte 31 above 127; signedRadix16 panics for such a scalar; DoubleZ1(u)
\* panics whenever u.Z is not 1, with every coordinate of the receiver (and of
\* every object) as it was before the call.
C13_ViolationsAbort ==
  /\ Ended("nonAdjacentForm") =>
       ((call.args[1] < 2 \/ call.args[1] > 8 \/ Scalar_Bytes(pre[call.recv])[32] > 127)
          => (pc = "panicked" /\ panicked # "nil" /\ digits = <<>> /\ scalars = pre))
  /\ Ended("signedRadix16") =>
       (Scalar_Bytes(pre[call.recv])[32] > 127
          => (pc = "panicked" /\ panicked # "nil" /\ digits = <<>> /\ scalars = pre))
  /\ Ended("ProjectiveGroupElement.DoubleZ1") =>
       (prePoints[call.args[1]].Z # FieldElement_One
          => /\ pc = "panicked"
             /\ panicked = "ed25519: DoubleZ1 called with Z != 1"
             /\ ret = "nil"
             /\ points = prePoints)

\* DoubleZ1 was called on a point with Z = 2 as receiver and operand: it
\* panicked and the object holds what it held
C13_Witness ==
  /\ Ended("ProjectiveGroupElement.DoubleZ1")
  /\ call.recv = call.args[1]
  /\ prePoints[call.recv] = ProjectiveRows[2]
  /\ prePoints[call.recv].Z = FieldElement_Two
  /\ pc = "panicked"
  /\ points = prePoints

---------------------------------------------------------------------------
(* The ring laws of Scalar: the caller computes both sides of a law with    *)
(* Add, Subtract, Negate and Multiply on its own objects and compares them  *)
(* with Equal.                                                              *)

RingIds == {"x", "y", "z", "a", "b", "c", "one", "minusOne", "zero"}

\* the caller's call on Scalars returns r, with the Scalar objects left as h
ScalarCalled(h, r) ==
  /\ pc' = IF Len(todo) = 1 THEN "done" ELSE "ready"
  /\ todo' = Tail(todo)
  /\ pre' = scalars
  /\ call' = [op |-> Head(todo).op, recv |-> Head(todo).recv,
              args |-> Head(todo).args, input |-> <<>>]
  /\ scalars' = h
  /\ ret' = r
  /\ UNCHANGED <<buf, err, digits, panicked, points, prePoints, ladder, multiple>>

ScalarSubtractCall ==
  Calling("Scalar.Subtract")
    /\ ScalarCalled(Scalar_Subtract(scalars, Head(todo).recv, Head(todo).args[1],
                                    Head(todo).args[2]), Head(todo).recv)
ScalarNegateCall ==
  Calling("Scalar.Negate")
    /\ ScalarCalled(Scalar_Negate(scalars, Head(todo).recv, Head(todo).args[1]),
                    Head(todo).recv)
ScalarMultiplyCall ==
  Calling("Scalar.Multiply")
    /\ ScalarCalled(Scalar_Multiply(scalars, Head(todo).recv, Head(todo).args[1],
                                    Head(todo).args[2]), Head(todo).recv)
ScalarEqualCall ==
  Calling("Scalar.Equal")
    /\ ScalarCalled(scalars, Scalar_Equal(scalars[Head(todo).recv],
                                          scalars[Head(todo).args[1]]))

\* the laws, each as the calls that compute its two sides and compare them
Commutes == <<
  PointCall("Scalar.Add", "a", <<"x", "y">>),
  PointCall("Scalar.Add", "b", <<"y", "x">>),
  PointCall("Scalar.Equal", "a", <<"b">>) >>
Associates == <<
  PointCall("Scalar.Add", "a", <<"x", "y">>),
  PointCall("Scalar.Add", "a", <<"a", "z">>),
  PointCall("Scalar.Add", "b", <<"y", "z">>),
  PointCall("Scalar.Add", "b", <<"x", "b">>),
  PointCall("Scalar.Equal", "a", <<"b">>) >>
Distributes == <<
  PointCall("Scalar.Add", "a", <<"y", "z">>),
  PointCall("Scalar.Multiply", "a", <<"x", "a">>),
  PointCall("Scalar.Multiply", "b", <<"x", "y">>),
  PointCall("Scalar.Multiply", "c", <<"x", "z">>),
  PointCall("Scalar.Add", "b", <<"b", "c">>),
  PointCall("Scalar.Equal", "a", <<"b">>) >>
Cancels == <<
  PointCall("Scalar.Negate", "a", <<"x">>),
  PointCall("Scalar.Add", "a", <<"x", "a">>),
  PointCall("Scalar.Equal", "a", <<"zero">>) >>
UnitLaw == <<
  PointCall("Scalar.Multiply", "a", <<"x", "one">>),
  PointCall("Scalar.Equal", "a", <<"x">>) >>
Subtracts == <<
  PointCall("Scalar.Subtract", "a", <<"x", "y">>),
  PointCall("Scalar.Negate", "b", <<"y">>),
  PointCall("Scalar.Add", "b", <<"x", "b">>),
  PointCall("Scalar.Equal", "a", <<"b">>) >>
OnePlusMinusOne == <<
  PointCall("Scalar.Add", "a", <<"one", "minusOne">>),
  PointCall("Scalar.Equal", "a", <<"zero">>) >>

RingLaws ==
  {Commutes, Associates, Distributes, Cancels, UnitLaw, Subtracts, OnePlusMinusOne}

\* x, y and z hold any of the sample values; a, b, c and zero are new Scalars;
\* one and minusOne hold the package's scOne and scMinusOne
InitRing ==
  /\ pc = "ready"
  /\ todo \in RingLaws
  /\ \E vx, vy, vz \in ArithValues :
       scalars = [o \in RingIds |->
                    IF o = "x" THEN vx
                    ELSE IF o = "y" THEN vy
                    ELSE IF o = "z" THEN vz
                    ELSE IF o = "one" THEN scOne
                    ELSE IF o = "minusOne" THEN scMinusOne
                    ELSE NewScalar]
  /\ pre = scalars
  /\ points = <<>>
  /\ prePoints = <<>>
  /\ call = NoCall
  /\ buf = <<>>
  /\ ret = "nil"
  /\ err = "nil"
  /\ digits = <<>>
  /\ panicked = "nil"
  /\ ladder = NoLadder
  /\ multiple = <<>>

NextRing ==
  \/ ScalarAddCall
  \/ ScalarSubtractCall
  \/ ScalarNegateCall
  \/ ScalarMultiplyCall
  \/ ScalarEqualCall

SpecRing == InitRing /\ [][NextRing]_vars

\* the last call of the caller was of op
Made(op) == call.op = op /\ pc \in {"ready", "done"}

\* the integer the Scalar s holds, as 32 bytes
Value(s) == Scalar_Bytes(scalars[s])

\* C14: the ring laws modulo l. Each law's two sides, computed by the calls,
\* are Equal: x+y = y+x, (x+y)+z = x+(y+z), x*(y+z) = x*y + x*z, x + (-x) = 0,
\* x*1 = x with 1 = scOne, and x-y = x+(-y). Every Add, Subtract, Negate and
\* Multiply leaves in its receiver the sum, difference, negation or product mod
\* l of the integers its operands held. scOne + scMinusOne encodes to 32 zero
\* bytes and scMinusOne to scMinusOneBytes, the bytes of l - 1.
C14_RingLaws ==
  /\ (pc = "done" /\ call.op = "Scalar.Equal") => ret = 1
  /\ Made("Scalar.Add") =>
       Value(call.recv) = ModL(NatAdd(OperandBytes(1), OperandBytes(2), 33))
  /\ Made("Scalar.Subtract") =>
       Value(call.recv) =
         ModL(NatBorrow(NatAdd(OperandBytes(1), LBytes, 33), OperandBytes(2), 33)[1])
  /\ Made("Scalar.Negate") =>
       Value(call.recv) = ModL(NatBorrow(LBytes, OperandBytes(1), 32)[1])
  /\ Made("Scalar.Multiply") =>
       Value(call.recv) = ModL(NatMul(OperandBytes(1), OperandBytes(2)))
  /\ (Made("Scalar.Add") /\ call.args = <<"one", "minusOne">>) =>
       Value(call.recv) = scZeroBytes
  /\ Scalar_Bytes(scMinusOne) = scMinusOneBytes
  /\ scMinusOneBytes = NatBorrow(LBytes, scOneBytes, 32)[1]
  /\ Scalar_Bytes(scOne) = scOneBytes

\* both sides of the distributive law were computed for x = l - 1 and a sum
\* y + z that is not 0, and found Equal
C14_Witness ==
  /\ pc = "done"
  /\ call.op = "Scalar.Equal"
  /\ ret = 1
  /\ scalars["c"] # NewScalar
  /\ Value("x") = scMinusOneBytes
  /\ Value("a") # scZeroBytes
  /\ Value("a") = Value("b")

---------------------------------------------------------------------------
(* Subtraction, and the P3, P1xP1 and cached representations. A ProjP3 is a *)
(* record [X, Y, Z, T] like an ExtendedGroupElement; a ProjP1xP1 is a       *)
(* record [X, Y, Z, T] with x = X/Z and y = Y/T; a ProjCached is a record   *)
(* [YplusX, YminusX, Z, T2d].                                               *)

\* Sub from A, B, C and D on: E = B-A, F = D+C, G = D-C, H = B+A
Sub_EFGH(A, B, C, DD) ==
  <<A, B, C, DD,
    Completed(FieldElement_Sub(B, A), FieldElement_Add(DD, C),
              FieldElement_Sub(DD, C), FieldElement_Add(B, A))>>[5]

\* Sub: Add with X2 and T2 negated, A = (Y1-X1)*(Y2+X2), B = (Y1+X1)*(Y2-X2),
\* C = T1*T2*2d, D = 2*Z1*Z2
ExtendedGroupElement_Sub(p1, p2) ==
  Sub_EFGH(FieldElement_Mul(FieldElement_Sub(p1.Y, p1.X), FieldElement_Add(p2.Y, p2.X)),
           FieldElement_Mul(FieldElement_Add(p1.Y, p1.X), FieldElement_Sub(p2.Y, p2.X)),
           FieldElement_Mul(FieldElement_Mul(p1.T, p2.T), twoD),
           Add_D(FieldElement_Mul(p1.Z, p2.Z)))

\* ProjCached.FromP3
ProjCached_FromP3(p) ==
  <<p, [YplusX |-> FieldElement_Add(p.Y, p.X), YminusX |-> FieldElement_Sub(p.Y, p.X),
        Z |-> p.Z, T2d |-> FieldElement_Mul(p.T, twoD)]>>[2]

\* ZZ2.Add(&ZZ2, &ZZ2)
P1xP1_ZZ2(ZZ2) == FieldElement_Add(ZZ2, ZZ2)

\* ProjP1xP1.Add from PP, MM, TT2d and ZZ2 on
P1xP1_Sum(PP, MM, TT2d, ZZ2) ==
  <<PP, MM, TT2d, ZZ2,
    Point(FieldElement_Sub(PP, MM), FieldElement_Add(PP, MM),
          FieldElement_Add(ZZ2, TT2d), FieldElement_Sub(ZZ2, TT2d))>>[5]

\* ProjP1xP1.Sub from PP, MM, TT2d and ZZ2 on: Z and T the other way round
P1xP1_Difference(PP, MM, TT2d, ZZ2) ==
  <<PP, MM, TT2d, ZZ2,
    Point(FieldElement_Sub(PP, MM), FieldElement_Add(PP, MM),
          FieldElement_Sub(ZZ2, TT2d), FieldElement_Add(ZZ2, TT2d))>>[5]

\* ProjP1xP1.Add of a ProjP3 p and a ProjCached q
ProjP1xP1_Add(p, q) ==
  <<p, q,
    P1xP1_Sum(FieldElement_Mul(FieldElement_Add(p.Y, p.X), q.YplusX),
              FieldElement_Mul(FieldElement_Sub(p.Y, p.X), q.YminusX),
              FieldElement_Mul(p.T, q.T2d),
              P1xP1_ZZ2(FieldElement_Mul(p.Z, q.Z)))>>[3]

\* ProjP1xP1.Sub: the two halves of q the other way round
ProjP1xP1_Sub(p, q) ==
  <<p, q,
    P1xP1_Difference(FieldElement_Mul(FieldElement_Add(p.Y, p.X), q.YminusX),
                     FieldElement_Mul(FieldElement_Sub(p.Y, p.X), q.YplusX),
                     FieldElement_Mul(p.T, q.T2d),
                     P1xP1_ZZ2(FieldElement_Mul(p.Z, q.Z)))>>[3]

\* ProjP3.FromP1xP1: X = X*T, Y = Y*Z, Z = Z*T, T = X*Y
ProjP3_FromP1xP1(p) ==
  <<p, Point(FieldElement_Mul(p.X, p.T), FieldElement_Mul(p.Y, p.Z),
             FieldElement_Mul(p.Z, p.T), FieldElement_Mul(p.X, p.Y))>>[2]

\* ProjP3.Add and Sub: q is cached and the result computed in locals, then
\* converted into the receiver
ProjP3_Add(p, q) == ProjP3_FromP1xP1(ProjP1xP1_Add(p, ProjCached_FromP3(q)))
ProjP3_Sub(p, q) == ProjP3_FromP1xP1(ProjP1xP1_Sub(p, ProjCached_FromP3(q)))

\* ProjP3.Neg: the same statements
ProjP3_Neg_In(h, v, p) == Neg_T(Neg_Z(Neg_Y(Neg_X(h, v, p), v, p), v, p), v, p)

\* the objects h after v.op(args...), and the panic if it panics. Add, Sub and
\* Double read their operands into locals and write v from the locals.
Run(op, h, v, args) ==
  IF op = "ExtendedGroupElement.Add"
  THEN Completes([h EXCEPT ![v] = ExtendedGroupElement_Add(h[args[1]], h[args[2]])])
  ELSE IF op = "ExtendedGroupElement.Sub"
  THEN Completes([h EXCEPT ![v] = ExtendedGroupElement_Sub(h[args[1]], h[args[2]])])
  ELSE IF op = "ExtendedGroupElement.Double"
  THEN Completes([h EXCEPT ![v] = ExtendedGroupElement_Double(h[args[1]])])
  ELSE IF op = "ExtendedGroupElement.Neg"
  THEN Completes(ExtendedGroupElement_Neg_In(h, v, args[1]))
  ELSE IF op = "ProjP3.Add"
  THEN Completes([h EXCEPT ![v] = ProjP3_Add(h[args[1]], h[args[2]])])
  ELSE IF op = "ProjP3.Sub"
  THEN Completes([h EXCEPT ![v] = ProjP3_Sub(h[args[1]], h[args[2]])])
  ELSE IF op = "ProjP3.Neg"
  THEN Completes(ProjP3_Neg_In(h, v, args[1]))
  ELSE ProjectiveGroupElement_DoubleZ1(h, v, args[1])

PointSubCall ==
  Calling("ExtendedGroupElement.Sub")
    /\ Stored(ExtendedGroupElement_Sub(Operand(1), Operand(2)))
P3AddCall == Calling("ProjP3.Add") /\ Stored(ProjP3_Add(Operand(1), Operand(2)))
P3SubCall == Calling("ProjP3.Sub") /\ Stored(ProjP3_Sub(Operand(1), Operand(2)))
P3NegCall ==
  Calling("ProjP3.Neg")
    /\ PointReturned(Completes(ProjP3_Neg_In(points, Head(todo).recv, Head(todo).args[1])))

---------------------------------------------------------------------------
(* A mutating point method called with its receiver being any of the        *)
(* objects, its operands included.                                          *)

Mutating ==
  {"ExtendedGroupElement.Add", "ExtendedGroupElement.Sub", "ExtendedGroupElement.Double",
   "ExtendedGroupElement.Neg", "ProjP3.Add", "ProjP3.Sub", "ProjP3.Neg",
   "ProjectiveGroupElement.DoubleZ1"}

AliasCalls ==
  OneCall("ExtendedGroupElement.Add", 2) \cup OneCall("ExtendedGroupElement.Sub", 2)
    \cup OneCall("ExtendedGroupElement.Double", 1) \cup OneCall("ExtendedGroupElement.Neg", 1)
    \cup OneCall("ProjP3.Add", 2) \cup OneCall("ProjP3.Sub", 2) \cup OneCall("ProjP3.Neg", 1)

\* the objects hold any of the sample points of the method's type, and the
\* caller makes one call with any receiver and operands
InitAlias ==
  /\ pc = "ready"
  /\ \/ /\ todo \in OneCall("ProjectiveGroupElement.DoubleZ1", 1)
        /\ points \in [PointIds -> ProjectiveSample]
     \/ todo \in AliasCalls /\ points \in [PointIds -> PointSample]
  /\ prePoints = points
  /\ scalars = <<>>
  /\ pre = <<>>
  /\ call = NoCall
  /\ buf = <<>>
  /\ ret = "nil"
  /\ err = "nil"
  /\ digits = <<>>
  /\ panicked = "nil"
  /\ ladder = NoLadder
  /\ multiple = <<>>

NextAlias ==
  \/ PointAddCall
  \/ PointSubCall
  \/ PointDoubleCall
  \/ PointNegCall
  \/ P3AddCall
  \/ P3SubCall
  \/ P3NegCall
  \/ DoubleZ1Call

SpecAlias == InitAlias /\ [][NextAlias]_vars

\* a new object of the type of op's receiver: every coordinate is 0
NewPoint(op) ==
  IF op = "ProjectiveGroupElement.DoubleZ1"
  THEN Projective(FieldElement_Zero, FieldElement_Zero, FieldElement_Zero)
  ELSE Point(FieldElement_Zero, FieldElement_Zero, FieldElement_Zero, FieldElement_Zero)

\* the objects h and a new object "fresh"
WithFresh(h, op) ==
  [o \in DOMAIN h \cup {"fresh"} |-> IF o = "fresh" THEN NewPoint(op) ELSE h[o]]

\* what the last call would have done with a new object as its receiver
FreshRun == Run(call.op, WithFresh(prePoints, call.op), "fresh", call.args)

\* C15: a mutating point method leaves in its receiver the point it leaves in
\* a new receiver, whether or not the receiver is also its first operand, its
\* second, or both: ExtendedGroupElement Add, Sub, Double and Neg, ProjP3 Add,
\* Sub and Neg, and DoubleZ1 (which panics in the same cases). No other object
\* is written.
C15_ReceiverMayBeOperand ==
  (pc \in {"done", "panicked"} /\ call.op \in Mutating) =>
    /\ (pc = "panicked") = (FreshRun.panic # "nil")
    /\ pc = "done" => (points[call.recv] = FreshRun.h["fresh"] /\ ret = call.recv)
    /\ \A o \in DOMAIN points \ {call.recv} : points[o] = prePoints[o]

\* u.DoubleZ1(u) was called on the base point: u holds another point, the one
\* a new receiver would hold
C15_Witness ==
  /\ pc = "done"
  /\ call.op = "ProjectiveGroupElement.DoubleZ1"
  /\ call.recv = call.args[1]
  /\ prePoints[call.recv] = ProjectiveRows[1]
  /\ points[call.recv] # prePoints[call.recv]
  /\ points[call.recv] = FreshRun.h["fresh"]

---------------------------------------------------------------------------
(* The identity in each representation: the caller builds it with Zero(),   *)
(* adds or doubles it, and compares.                                        *)

\* ProjP3.Zero: (0 : 1 : 1 : 0)
ProjP3_Zero == Point(FieldElement_Zero, FieldElement_One, FieldElement_One, FieldElement_Zero)

\* ProjP2.Zero: (0 : 1 : 1)
ProjP2_Zero == Projective(FieldElement_Zero, FieldElement_One, FieldElement_One)

\* ProjP1xP1.Double from its locals: v.Y = YY + XX, v.Z = YY - XX,
\* v.X = XplusYsq - v.Y, v.T = ZZ2 - v.Z
P1xP1_Doubled(XX, YY, ZZ2, XplusYsq) ==
  LET Y3 == FieldElement_Add(YY, XX)
      Z3 == FieldElement_Sub(YY, XX)
  IN  <<XX, YY, ZZ2, XplusYsq,
        Point(FieldElement_Sub(XplusYsq, Y3), Y3, Z3, FieldElement_Sub(ZZ2, Z3))>>[5]

\* ProjP1xP1.Double of a ProjP2: XX = X^2, YY = Y^2, ZZ2 = 2*Z^2,
\* XplusYsq = (X+Y)^2
ProjP1xP1_Double(p) ==
  <<p, P1xP1_Doubled(FieldElement_Square(p.X), FieldElement_Square(p.Y),
                     P1xP1_ZZ2(FieldElement_Square(p.Z)),
                     FieldElement_Square(FieldElement_Add(p.X, p.Y)))>>[2]

P3ZeroCall == Calling("ProjP3.Zero") /\ Stored(ProjP3_Zero)
P2ZeroCall == Calling("ProjP2.Zero") /\ Stored(ProjP2_Zero)
P1xP1DoubleCall == Calling("ProjP1xP1.Double") /\ Stored(ProjP1xP1_Double(Operand(1)))
P3FromP1xP1Call == Calling("ProjP3.FromP1xP1") /\ Stored(ProjP3_FromP1xP1(Operand(1)))

\* p and q are points (ExtendedGroupElement or ProjP3, as the calls take
\* them), p2 is a ProjP2 and r a ProjP1xP1
ZeroIds == {"p", "q", "p2", "r"}

\* the identity plus itself, the identity doubled, P plus the identity and the
\* identity plus P on ExtendedGroupElement
ZeroPlusZero == <<
  PointCall("ExtendedGroupElement.Zero", "q", <<>>),
  PointCall("ExtendedGroupElement.Zero", "p", <<>>),
  PointCall("ExtendedGroupElement.Add", "p", <<"p", "q">>),
  PointCall("ExtendedGroupElement.Equal", "p", <<"q">>) >>
ZeroDoubled == <<
  PointCall("ExtendedGroupElement.Zero", "q", <<>>),
  PointCall("ExtendedGroupElement.Zero", "p", <<>>),
  PointCall("ExtendedGroupElement.Double", "p", <<"p">>),
  PointCall("ExtendedGroupElement.Equal", "p", <<"q">>) >>
PointPlusZero == <<
  PointCall("ExtendedGroupElement.Zero", "q", <<>>),
  PointCall("ExtendedGroupElement.Add", "q", <<"p", "q">>),
  PointCall("ExtendedGroupElement.Equal", "q", <<"p">>) >>
ZeroPlusPoint == <<
  PointCall("ExtendedGroupElement.Zero", "q", <<>>),
  PointCall("ExtendedGroupElement.Add", "q", <<"q", "p">>),
  PointCall("ExtendedGroupElement.Equal", "q", <<"p">>) >>
\* the same on ProjP3, whose Add goes through ProjCached.FromP3
P3ZeroPlusZero == <<
  PointCall("ProjP3.Zero", "q", <<>>),
  PointCall("ProjP3.Zero", "p", <<>>),
  PointCall("ProjP3.Add", "p", <<"p", "q">>),
  PointCall("ProjP3.Equal", "p", <<"q">>) >>
P3PointPlusZero == <<
  PointCall("ProjP3.Zero", "q", <<>>),
  PointCall("ProjP3.Add", "q", <<"p", "q">>),
  PointCall("ProjP3.Equal", "q", <<"p">>) >>
\* ProjP2.Zero() doubled into a ProjP1xP1 and converted to ProjP3
P2ZeroDoubled == <<
  PointCall("ProjP2.Zero", "p2", <<>>),
  PointCall("ProjP1xP1.Double", "r", <<"p2">>),
  PointCall("ProjP3.FromP1xP1", "p", <<"r">>),
  PointCall("ProjP3.Zero", "q", <<>>),
  PointCall("ProjP3.Equal", "p", <<"q">>) >>

ZeroLaws ==
  {ZeroPlusZero, ZeroDoubled, PointPlusZero, ZeroPlusPoint, P3ZeroPlusZero,
   P3PointPlusZero, P2ZeroDoubled}

\* p holds any of the sample points; the other objects are new
InitZero ==
  /\ pc = "ready"
  /\ todo \in ZeroLaws
  /\ \E P \in PointSample :
       points = [o \in ZeroIds |->
                   IF o = "p" THEN P
                   ELSE IF o = "p2" THEN NewPoint("ProjectiveGroupElement.DoubleZ1")
                   ELSE NewPoint("ProjP3.Zero")]
  /\ prePoints = points
  /\ scalars = <<>>
  /\ pre = <<>>
  /\ call = NoCall
  /\ buf = <<>>
  /\ ret = "nil"
  /\ err = "nil"
  /\ digits = <<>>
  /\ panicked = "nil"
  /\ ladder = NoLadder
  /\ multiple = <<>>

NextZero ==
  \/ PointZeroCall
  \/ PointAddCall
  \/ PointDoubleCall
  \/ PointEqualCall
  \/ P3ZeroCall
  \/ P3AddCall
  \/ P3EqualCall
  \/ P2ZeroCall
  \/ P1xP1DoubleCall
  \/ P3FromP1xP1Call

SpecZero == InitZero /\ [][NextZero]_vars

\* P denotes the affine point (0, 1)
IsIdentity(P) == P.X = FieldElement_Zero /\ P.Y = P.Z /\ P.Z # FieldElement_Zero

ZeroCalls == {"ExtendedGroupElement.Zero", "ProjP3.Zero", "ProjP2.Zero"}

\* C16: Zero() is the neutral element in every representation. What Zero()
\* stores denotes the affine point (0, 1). The identity added to itself and the
\* identity doubled are Equal to the identity, and denote (0, 1), for
\* ExtendedGroupElement Add and Double, for ProjP3.Add (through
\* ProjCached.FromP3) and for ProjP1xP1.Double of ProjP2.Zero() converted to
\* ProjP3. Add(P, Zero()) and Add(Zero(), P) are Equal to P for every point P.
C16_ZeroIsNeutral ==
  /\ (pc = "done" /\ call.op \in Compares) =>
       /\ ret = 1
       /\ IsIdentity(points[call.args[1]]) => IsIdentity(points[call.recv])
  /\ (call.op \in ZeroCalls /\ pc \in {"ready", "done"}) => IsIdentity(points[call.recv])

\* the base point with a large Z plus Zero() was found Equal to the base point
C16_Witness ==
  /\ pc = "done"
  /\ call.op \in Compares
  /\ ret = 1
  /\ call.recv = "q"
  /\ points["p"] = PointRows[3]
  /\ points["q"] # PointRows[3]
  /\ ~IsIdentity(points["q"])

---------------------------------------------------------------------------
(* scReduce step by step: the loads, then the folds and carries in the      *)
(* order of the source, then the packing.  buf holds the limbs s0 .. s23,   *)
(* pre the limbs before the last step, todo the steps still to take and     *)
(* call.args the step just taken.                                           *)

LoadStep ==
  /\ pc = "ready"
  /\ call.op = "scReduce"
  /\ pc' = "limbs"
  /\ buf' = LoadLimbs(call.input)
  /\ pre' = buf'
  /\ UNCHANGED <<scalars, call, ret, err, digits, panicked, ladder, multiple, todo,
                 points, prePoints>>

\* the next step of the source: a fold, a carry with rounding or a plain carry
LimbStep ==
  /\ pc = "limbs"
  /\ todo # <<>>
  /\ buf' = ReduceStepOf(buf, Head(todo))
  /\ pre' = buf
  /\ call' = [call EXCEPT !.args = Head(todo)]
  /\ todo' = Tail(todo)
  /\ UNCHANGED <<pc, scalars, ret, err, digits, panicked, ladder, multiple, points,
                 prePoints>>

PackStep ==
  /\ pc = "limbs"
  /\ todo = <<>>
  /\ pc' = "done"
  /\ ret' = Pack(buf)
  /\ UNCHANGED <<scalars, pre, call, buf, err, digits, panicked, ladder, multiple, todo,
                 points, prePoints>>

InitReduce ==
  /\ pc = "ready"
  /\ \E x \in WideInputs :
       call = [op |-> "scReduce", recv |-> "nil", args |-> <<>>, input |-> x]
  /\ todo = ReduceSteps
  /\ buf = <<>>
  /\ pre = <<>>
  /\ scalars = <<>>
  /\ ret = "nil"
  /\ err = "nil"
  /\ digits = <<>>
  /\ panicked = "nil"
  /\ ladder = NoLadder
  /\ multiple = <<>>
  /\ points = <<>>
  /\ prePoints = <<>>

NextReduce ==
  \/ LoadStep
  \/ LimbStep
  \/ PackStep

SpecReduce == InitReduce /\ [][NextReduce]_vars

\* the int64 a plus 2^63, as an unsigned 8-byte number
Raised(a) == [a EXCEPT ![8] = (@ + 128) % 256]

\* 2^n in bytes
PowerOfTwo(n) == Zeros(n \div 8) \o <<2 ^ (n % 8)>>

\* (s[j] + 2^63) * 2^(21*j)
Weighted(s, j) == NatMul(Raised(s[j]), PowerOfTwo(21 * j))

Sum4(a, b, c, d) == <<a, b, c, d, NatAdd(NatAdd(a, b, 72), NatAdd(c, d, 72), 72)>>[5]

\* sum((s[j] + 2^63) * 2^(21*j)) over j in lo .. hi, a natural number of 72
\* bytes
RECURSIVE RaisedSumOver(_, _, _)
RaisedSumOver(s, lo, hi) ==
  IF lo > hi THEN Zeros(72)
  ELSE IF lo = hi THEN Weighted(s, lo)
  ELSE LET n == Quarter(lo, hi)
       IN  Sum4(RaisedSumOver(s, lo, lo + n - 1),
                RaisedSumOver(s, lo + n, Upto(lo + 2 * n - 1, hi)),
                RaisedSumOver(s, lo + 2 * n, Upto(lo + 3 * n - 1, hi)),
                RaisedSumOver(s, lo + 3 * n, hi))

\* sum(s[j] * 2^(21*j)) plus the same constant for every s
RaisedSum(s) == RaisedSumOver(s, 0, 23)

Same(x, y) == <<x, y, x = y>>[3]

\* sum(a[j] * 2^(21*j)) and sum(b[j] * 2^(21*j)) are congruent modulo l
SameResidue(x, y) == <<x, y, Same(ModL(x), ModL(y))>>[3]
SameSum(a, b) == SameResidue(RaisedSum(a), RaisedSum(b))

\* sum(a[j] * 2^(21*j)) + sum(b[j] * 2^(21*j)) is congruent to
\* 2 * sum(z[j] * 2^(21*j)) modulo l
Twice(x) == <<x, NatAdd(x, x, 73)>>[2]
Together(x, y) == <<x, y, NatAdd(x, y, 73)>>[3]
SumsCancelAbout(a, b, z) ==
  SameResidue(Together(RaisedSum(a), RaisedSum(b)), Twice(RaisedSum(z)))

\* the limbs with s12 = 1 and the others 0: their sum is 2^252
UnitLimbs == [j \in 0..23 |-> I64Const(IF j = 12 THEN 1 ELSE 0)]

I64Neg(k) == I64Sub(I64Const(0), I64Const(k))

\* a fold step was the last step taken
Folded == pc = "limbs" /\ call.args # <<>> /\ call.args[1] = "fold"
FoldedLimb == call.args[2]

\* C17 as stated: the fold constants satisfy
\* 2^252 = -(666643 + 470296*2^21 + 654183*2^42 - 997805*2^63 + 136657*2^84
\* - 683901*2^105) (mod l), so what a fold step removes (the folded limb at its
\* weight) and what it adds to the six lower limbs cancel modulo l, and the fold
\* step leaves sum(limb[j] * 2^(21*j)) unchanged modulo l.
C17_FoldAsStated ==
  Folded =>
    /\ SumsCancelAbout(pre, buf, [pre EXCEPT ![FoldedLimb] = I64Const(0)])
    /\ SameSum(pre, buf)

\* C17: a fold step of scReduce adds limb*666643, limb*470296, limb*654183,
\* -limb*997805, limb*136657, -limb*683901 to the six limbs starting 12
\* positions below the folded limb and zeroes the folded limb; the constants
\* satisfy 2^252 = +(666643 + 470296*2^21 + 654183*2^42 - 997805*2^63
\* + 136657*2^84 - 683901*2^105) (mod l), and each fold step leaves
\* sum(limb[j] * 2^(21*j)) unchanged modulo l.
C17_FoldKeepsSum ==
  /\ Folded =>
       /\ SameSum(pre, buf)
       /\ buf[FoldedLimb] = I64Const(0)
       /\ \A j \in 0..23 :
            (j < FoldedLimb - 12 \/ (j > FoldedLimb - 7 /\ j # FoldedLimb)) => buf[j] = pre[j]
       /\ buf[FoldedLimb - 12] = I64Add(pre[FoldedLimb - 12], I64MulConst(pre[FoldedLimb], 666643))
  /\ (pc = "limbs" /\ call.args = <<>>) =>
       /\ SameSum(UnitLimbs, Fold(UnitLimbs, 12))
       /\ \A j \in 0..23 :
            Fold(UnitLimbs, 12)[j] =
              CASE j = 0 -> I64Const(666643)
                [] j = 1 -> I64Const(470296)
                [] j = 2 -> I64Const(654183)
                [] j = 3 -> I64Neg(997805)
                [] j = 4 -> I64Const(136657)
                [] j = 5 -> I64Neg(683901)
                [] OTHER -> I64Const(0)

\* the last fold of s12 folded a limb that was not zero, and a limb is negative
C17_Witness ==
  /\ Folded
  /\ FoldedLimb = 12
  /\ pre[12] # I64Const(0)
  /\ buf[12] = I64Const(0)
  /\ \E j \in 0..11 : buf[j][8] >= 128
  /\ SameSum(pre, buf)

=============================================================================
